---- MODULE Spec2Model ----
(***************************************************************************)
(* Disk-based breadth-first search (DDD): the search driver, its files,    *)
(* the RAM cache, the sort/merge/filter pipeline and the exit tracer of    *)
(* search.cpp, with the Windows file plug-in and a small family of problem *)
(* plug-ins.                                                               *)
(***************************************************************************)
EXTENDS Integers, Sequences, FiniteSets, Bags, TLC

(***************************************************************************)
(* Bounds of the model                                                     *)
(***************************************************************************)
\* largest number of times the search process is started again
MaxRestarts == 1

(***************************************************************************)
(* Build configuration (config.h) at model scale                           *)
(***************************************************************************)
MAX_FRAMES == 6
STANDARD_BUFFER_SIZE == 2
\* MAX_FRAMES of a problem whose frames do not fit 15 bits
FAR_MAX_FRAMES == 40000
\* how many calls of addState are made on the cache alone
MaxCalls == 3
\* the processing ring and the worker threads, at model scale
PROCESS_QUEUE_SIZE == 1
\* the largest WORKERS (THREADS - 1) explored
MaxWorkers == 2
\* the longest open file the stream operations are given
MaxLen == 3
\* how many worker phases the driver runs, and how many records it feeds in one
MaxPhases == 2
MaxFeed == 2
\* no thread
Nobody == -1
\* the most inputs an InputHeap is built over, and the largest payload in them
MaxInputs == 3
MaxPayload == 2
\* the longest file a rewrite stream is opened on, in records
MaxRewrite == 4
\* sizeof(Node) and sizeof(sectorBuffer) in bytes, scaled down from 8 and 512
NODE_SIZE == 2
SECTOR_SIZE == 4

\* a file that does not exist, a writer that was not created
NoFile == << << -1, -1 >> >>
NoQueue == << << -1, -1 >> >>
\* no solution.bin, no solution.txt
NoSolution == [exists |-> FALSE, group |-> 0, state |-> 0, steps |-> << >>]

(***************************************************************************)
(* 32-bit unsigned arithmetic on pairs <<high 16 bits, low 16 bits>>       *)
(***************************************************************************)
RECURSIVE Xor(_, _, _)
Xor(a, b, n) ==
  IF n = 0 THEN 0
  ELSE (((a % 2) + (b % 2)) % 2) + 2 * Xor(a \div 2, b \div 2, n - 1)

Xor32(a, b) == << Xor(a[1], b[1], 16), Xor(a[2], b[2], 16) >>

\* (a * b) mod 2^16 and (a * b) div 2^16 for a, b < 2^16, through 8-bit limbs
MulParts(a, b) ==
  LET t0 == a * (b % 256)
      t1 == a * (b \div 256)
      s  == t0 + (t1 % 256) * 256
  IN  << (s \div 65536) + (t1 \div 256), s % 65536 >>

Mul32(a, b) ==
  LET ll == MulParts(a[2], b[2])
      hl == MulParts(a[1], b[2])
      lh == MulParts(a[2], b[1])
  IN  << (ll[1] + hl[2] + lh[2]) % 65536, ll[2] >>

Shr32(a, r) ==
  IF r >= 16 THEN << 0, a[1] \div (2 ^ (r - 16)) >>
  ELSE << a[1] \div (2 ^ r), (a[2] \div (2 ^ r)) + (a[1] % (2 ^ r)) * (2 ^ (16 - r)) >>

Mod32(a, n) == ((a[1] % n) * (65536 % n) + (a[2] % n)) % n

\* the bytes of a 4-byte CompressedState holding payload p, as one word
Word(p) == << p \div 65536, p % 65536 >>

\* MurmurHash2 over the one 32-bit word of the compressed state
hashState(p) ==
  LET m  == << 23505, 59797 >>      \* 0x5bd1e995
      k1 == Mul32(Word(p), m)
      k2 == Xor32(k1, Shr32(k1, 24))
      k3 == Mul32(k2, m)
      h0 == Mul32(<< 0, 4 >>, m)    \* h = sizeof(CompressedState); h *= m
      h1 == Xor32(h0, k3)
      h2 == Xor32(h1, Shr32(h1, 13))
      h3 == Mul32(h2, m)
  IN  Xor32(h3, Shr32(h3, 15))

(***************************************************************************)
(* SampleMaze.  A State {x, y} is written as the number y * 65536 + x,     *)
(* which is also the 32-bit word of its CompressedState {uint16_t x, y}.   *)
(***************************************************************************)
X == 15
Y == 15
SAMPLE_MAX_FRAMES == 100

\* level[y][x], as level[y + 1][x + 1]
level ==
  << << "#", "#", "#", "#", "#", "#", "#", "#", "#", "#", "#", "#", "#", "#", "#" >>,
     << "#", "S", "#", " ", " ", " ", " ", " ", " ", " ", " ", " ", "#", " ", "#" >>,
     << "#", " ", "#", "#", "#", "#", "#", " ", "#", "#", "#", " ", "#", " ", "#" >>,
     << "#", " ", " ", " ", " ", " ", "#", " ", " ", " ", "#", " ", " ", " ", "#" >>,
     << "#", "#", "#", "#", "#", " ", " ", " ", "#", " ", "#", " ", "#", " ", "#" >>,
     << "#", " ", " ", " ", " ", " ", "#", " ", "#", "#", "#", " ", "#", " ", "#" >>,
     << "#", " ", "#", "#", "#", " ", "#", " ", "#", " ", " ", " ", "#", " ", "#" >>,
     << "#", " ", "#", " ", "#", "#", "#", " ", "#", "#", "#", "#", "#", " ", "#" >>,
     << "#", " ", "#", " ", " ", " ", "#", " ", "#", " ", " ", " ", " ", " ", "#" >>,
     << "#", "#", "#", " ", "#", " ", "#", "#", "#", " ", "#", "#", "#", "#", "#" >>,
     << "#", "S", "#", " ", "#", " ", " ", " ", " ", " ", "#", " ", " ", " ", "#" >>,
     << "#", " ", "#", " ", "#", " ", "#", " ", "#", "#", "#", " ", "#", " ", "#" >>,
     << "#", " ", "#", " ", "#", " ", "#", " ", "#", " ", " ", " ", "#", " ", "#" >>,
     << "#", " ", " ", " ", "#", " ", "#", " ", " ", " ", "#", " ", "#", "F", "#" >>,
     << "#", "#", "#", "#", "#", "#", "#", "#", "#", "#", "#", "#", "#", "#", "#" >> >>

\* the actions UP, RIGHT, DOWN, LEFT
DX == << 0, 1, 0, -1 >>
DY == << -1, 0, 1, 0 >>
actionNames == << "Up", "Right", "Down", "Left" >>

Cell(x, y) == y * 65536 + x
CellX(s) == s % 65536
CellY(s) == s \div 65536

\* State::perform(action): the frame delay and the state afterwards; -1 and
\* the state as it was when the move runs into a wall
perform(s, action) ==
  IF level[CellY(s) + DY[action] + 1][CellX(s) + DX[action] + 1] = "#"
  THEN << -1, s >>
  ELSE << 1, Cell(CellX(s) + DX[action], CellY(s) + DY[action]) >>

\* the cells of the level that hold the given character, in the order of the
\* scan of initProblem: row by row, which is the order of their numbers
RECURSIVE CellsWith(_, _)
CellsWith(ch, from) ==
  LET cells == { s \in { Cell(x, y) : x \in 0 .. (X - 1), y \in 0 .. (Y - 1) } :
                    s >= from /\ level[CellY(s) + 1][CellX(s) + 1] = ch }
  IN  IF cells = { } THEN << >>
      ELSE LET first == CHOOSE s \in cells : \A u \in cells : s <= u
           IN  << first >> \o CellsWith(ch, first + 1)

\* the moves of SampleMaze's expandChildren, per cell that is not a wall
SampleMaze ==
  LET inside == { Cell(x, y) : x \in 1 .. (X - 2), y \in 1 .. (Y - 2) }
      free   == { s \in inside : level[CellY(s) + 1][CellX(s) + 1] # "#" }
      valid(s) == { a \in 1 .. 4 : perform(s, a)[1] > 0 }
      RECURSIVE children(_, _)
      children(s, a) ==
        IF a > 4 THEN << >>
        ELSE (IF a \in valid(s)
              THEN << << actionNames[a], perform(s, a)[2], perform(s, a)[1] >> >>
              ELSE << >>) \o children(s, a + 1)
      finishCells == CellsWith("F", 0)
  IN  [ initialStates |-> CellsWith("S", 0),
        finish |-> { finishCells[i] : i \in DOMAIN finishCells },
        moves |-> [ s \in free |-> children(s, 1) ] ]

(***************************************************************************)
(* Problem plug-ins.  A State is a cell number; children are listed in the *)
(* order in which expandChildren hands them to the child handler, each as  *)
(* <<step, child state, delay>>.                                           *)
(***************************************************************************)
Problems ==
  [ zero |->
      [ initialStates |-> << 1 >>,
        finish |-> { 4 },
        moves |-> ( 0 :> << <<"a", 3, 1>> >> @@
                    1 :> << <<"a", 0, 1>>, <<"b", 3, 3>> >> @@
                    3 :> << <<"a", 4, 1>> >> @@
                    4 :> << >> ) ],
    ring |->
      [ initialStates |-> << 1 >>,
        finish |-> { },
        moves |-> ( 1 :> << <<"a", 3, 1>>, <<"b", 2, 1>> >> @@
                    2 :> << <<"a", 1, 1>>, <<"b", 4, 1>> >> @@
                    3 :> << <<"a", 4, 1>>, <<"b", 1, 1>> >> @@
                    4 :> << <<"a", 2, 1>>, <<"b", 3, 1>> >> ) ],
    twostart |->
      [ initialStates |-> << 1, 2 >>,
        finish |-> { 4 },
        moves |-> ( 1 :> << <<"a", 3, 2>> >> @@
                    2 :> << <<"a", 3, 1>>, <<"b", 4, 2>> >> @@
                    3 :> << <<"a", 4, 2>>, <<"b", 1, 1>> >> @@
                    4 :> << >> ) ],
    grouped |->
      [ initialStates |-> << 1 >>,
        finish |-> { 4 },
        moves |-> ( 1 :> << <<"a", 2, 2>>, <<"b", 3, 3>> >> @@
                    2 :> << <<"a", 3, 2>>, <<"b", 4, 3>> >> @@
                    3 :> << <<"a", 4, 1>>, <<"b", 1, 2>> >> @@
                    4 :> << >> ) ],
    fan |->
      [ initialStates |-> << 1 >>,
        finish |-> { 6 },
        moves |-> ( 1 :> << <<"a", 5, 1>>, <<"b", 4, 1>>, <<"c", 3, 1>>, <<"d", 2, 1>> >> @@
                    2 :> << <<"a", 6, 1>>, <<"b", 1, 1>> >> @@
                    3 :> << <<"a", 6, 1>> >> @@
                    4 :> << <<"a", 5, 1>> >> @@
                    5 :> << <<"a", 4, 2>> >> @@
                    6 :> << >> ) ],
    revisit |->
      [ initialStates |-> << 1 >>,
        finish |-> { 3 },
        moves |-> ( 1 :> << <<"a", 2, 2>>, <<"b", 2, 1>>, <<"c", 1, 1>> >> @@
                    2 :> << <<"a", 3, 1>> >> @@
                    3 :> << >> ) ],
    order |->
      [ initialStates |-> << 1, 2 >>,
        finish |-> { },
        moves |-> ( 0 :> << <<"a", 3, 1>> >> @@
                    1 :> << <<"a", 0, 1>> >> @@
                    2 :> << <<"a", 3, 1>> >> @@
                    3 :> << >> ) ],
    leaves |->
      [ initialStates |-> << 1 >>,
        finish |-> { },
        moves |-> ( 1 :> << >> @@ 2 :> << >> @@ 3 :> << >> ) ],
    far |->
      [ initialStates |-> << 1 >>,
        finish |-> { },
        moves |-> ( 1 :> << <<"a", 2, 33000>> >> @@
                    2 :> << <<"a", 1, 1>> >> ) ],
    crowd |->
      [ initialStates |-> << 1 >>,
        finish |-> { 6, 7 },
        moves |-> ( 1 :> << <<"a", 2, 2>>, <<"b", 6, 3>>, <<"c", 3, 3>>, <<"d", 7, 2>> >> @@
                    2 :> << <<"a", 4, 3>>, <<"b", 5, 2>> >> @@
                    3 :> << <<"a", 4, 1>>, <<"b", 8, 3>> >> @@
                    4 :> << >> @@ 5 :> << >> @@ 6 :> << >> @@ 7 :> << >> @@
                    8 :> << >> ) ],
    maze |-> SampleMaze ]

\* the builds explored: a problem, FRAMES_PER_GROUP, whether USE_ALL is set,
\* RAM_SIZE in units of sizeof(Node) and NODES_PER_HASH; arena says what
\* malloc(RAM_SIZE) hands out on the platform: fresh zero pages, or memory
\* that was used before
Build(prob, k, useAll, ramSize, nodesPerHash) ==
  [prob |-> prob, K |-> k, useAll |-> useAll, RAM_SIZE |-> ramSize,
   NODES_PER_HASH |-> nodesPerHash, arena |-> "fresh"]

Stale(b) == [b EXCEPT !.arena = "stale"]

Builds ==
  { Build("zero", 1, FALSE, 8, 2),
    Build("zero", 2, FALSE, 8, 2),
    Build("ring", 1, FALSE, 8, 2),
    Build("ring", 1, TRUE, 8, 2),
    Build("twostart", 1, FALSE, 8, 2),
    Stale(Build("twostart", 1, FALSE, 8, 2)),
    Build("twostart", 2, FALSE, 8, 2),
    Build("grouped", 2, FALSE, 8, 2),
    Build("grouped", 2, TRUE, 8, 2),
    Stale(Build("grouped", 2, TRUE, 8, 2)),
    Build("fan", 1, FALSE, 2, 1),
    Build("fan", 1, TRUE, 2, 1) }

\* SampleMaze as it is built: no frame groups, no USE_ALL
MazeBuilds ==
  { Build("maze", 1, FALSE, 4, 1),
    Stale(Build("maze", 1, FALSE, 4, 1)) }

\* a CacheNode (state and packed frame) takes two units of the arena, a Node one
NODES_PER_HASH(b) == b.NODES_PER_HASH
RAM_SIZE(b) == b.RAM_SIZE
CACHE_HASH_SIZE(b) == (RAM_SIZE(b) \div 2) \div NODES_PER_HASH(b)
BUFFER_SIZE(b) == RAM_SIZE(b)

States(b) == DOMAIN Problems[b.prob].moves

\* hashState of every compressed state of the problems, computed once
hashTable ==
  LET all == UNION { DOMAIN Problems[p].moves : p \in DOMAIN Problems }
  IN  [cs \in all |-> hashState(cs)]

\* State::compress / State::decompress: the fields are copied into 16 bits
compress(s) == ((s \div 65536) % 65536) * 65536 + (s % 65536)
decompress(cs) == cs

isFinish(b, s) == s \in Problems[b.prob].finish

\* expandChildren: the children of state s at the given frame, in emission
\* order, each as [step, state, frame]
expandChildren(b, frame, s) ==
  LET mv == Problems[b.prob].moves[s]
  IN  [ i \in 1..Len(mv) |->
          [step |-> mv[i][1], state |-> mv[i][2], frame |-> frame + mv[i][3]] ]

\* MAX_FRAMES of the problem plug-in
MaxFrames(b) ==
  IF b.prob = "maze" THEN SAMPLE_MAX_FRAMES
  ELSE IF b.prob = "far" THEN FAR_MAX_FRAMES
  ELSE MAX_FRAMES

MAX_FRAME_GROUPS(b) == (MaxFrames(b) + (b.K - 1)) \div b.K

\* GET_FRAME(frameGroup, cs); a record is <<payload, subframe>>
GET_FRAME(b, g, rec) == g * b.K + rec[2]

\* PACKED_FRAME is int16_t when MAX_FRAMES < 65536, else int32_t
PACKED_FRAME(b, frame) ==
  IF MaxFrames(b) < 65536 THEN ((frame + 32768) % 65536) - 32768 ELSE frame

(***************************************************************************)
(* Stream operations on sequences of records <<payload, subframe>>;        *)
(* CompressedState comparison looks at the payload only                    *)
(***************************************************************************)
RECURSIVE Insert(_, _)
Insert(r, s) ==
  IF s = << >> THEN << r >>
  ELSE IF r[1] < Head(s)[1] THEN << r >> \o s
  ELSE << Head(s) >> \o Insert(r, Tail(s))

\* std::sort(buffer, buffer + records)
RECURSIVE SortNodes(_)
SortNodes(s) == IF s = << >> THEN << >> ELSE Insert(Head(s), SortNodes(Tail(s)))

\* one record per payload, carrying the largest subframe
RECURSIVE deduplicateLargest(_)
deduplicateLargest(s) ==
  IF Len(s) <= 1 THEN s
  ELSE LET rest == deduplicateLargest(Tail(s))
       IN  IF Head(s)[1] = Head(rest)[1]
           THEN << << Head(s)[1],
                      IF Head(s)[2] > Head(rest)[2] THEN Head(s)[2] ELSE Head(rest)[2] >> >>
                \o Tail(rest)
           ELSE << Head(s) >> \o rest

\* deduplicate: one record per payload, carrying the smallest subframe
RECURSIVE deduplicate(_)
deduplicate(s) ==
  IF Len(s) <= 1 THEN s
  ELSE LET rest == deduplicate(Tail(s))
       IN  IF Head(s)[1] = Head(rest)[1]
           THEN << << Head(s)[1],
                      IF Head(s)[2] > Head(rest)[2] THEN Head(rest)[2] ELSE Head(s)[2] >> >>
                \o Tail(rest)
           ELSE << Head(s) >> \o rest

\* are the payloads of s in non-decreasing order
IsSorted(s) == \A i \in 1 .. (Len(s) - 1) : s[i][1] <= s[i + 1][1]

\* the smallest head first, the first of two equal heads first.  For sorted
\* inputs the place of every record is computed directly: a[i] comes after the
\* records of c below it, and c fills the places that a leaves
RECURSIVE Merge2(_, _)
Merge2(a, c) ==
  IF a = << >> THEN c
  ELSE IF c = << >> THEN a
  ELSE IF IsSorted(a) /\ IsSorted(c)
  THEN LET place == [i \in DOMAIN a |->
                       i + Cardinality({ j \in DOMAIN c : c[j][1] < a[i][1] })]
       IN  [n \in 1 .. (Len(a) + Len(c)) |->
              IF \E i \in DOMAIN a : place[i] = n
              THEN a[CHOOSE i \in DOMAIN a : place[i] = n]
              ELSE c[n - Cardinality({ i \in DOMAIN a : place[i] < n })]]
  ELSE IF Head(c)[1] < Head(a)[1] THEN << Head(c) >> \o Merge2(a, Tail(c))
  ELSE << Head(a) >> \o Merge2(Tail(a), c)

\* the order in which an InputHeap over the open inputs yields their records
RECURSIVE InputHeap(_)
InputHeap(inputs) ==
  IF inputs = << >> THEN << >>
  ELSE IF Head(inputs) = << >> THEN InputHeap(Tail(inputs))
  ELSE Merge2(Head(inputs), InputHeap(Tail(inputs)))

\* a merge that writes every record of the heap
mergeStreamsAll(inputs) == InputHeap(inputs)

\* mergeStreams: k-way merge with the minimum-subframe rule
mergeStreams(inputs) == deduplicate(InputHeap(inputs))

\* InputHeap::scanTo(target): drop the heap records below target
scanTo(heap, target) ==
  LET reached == { i \in DOMAIN heap : heap[i][1] >= target[1] }
  IN  IF reached = { } THEN << >>
      ELSE SubSeq(heap, CHOOSE i \in reached : \A j \in reached : i <= j, Len(heap))

\* InputHeap in detail.  The object is [heap, size, pos]: heap is the array
\* heap[1] .. heap[count] of nodes [state, input], of which the first size are
\* in use and heap[1] is the head; pos[i] is the number of records read from
\* inputs[i].  A state is a record of the stream or NULL
NULL == << >>

HeapNode(state, input) == [state |-> state, input |-> input]

\* INPUT::read of inputs[i] after pos[i] records were read
StreamRead(ins, pos, i) ==
  IF pos[i] < Len(ins[i]) THEN ins[i][pos[i] + 1] ELSE NULL

\* InputHeap::InputHeap: the objects the constructor can build.  Every open
\* input with a first record gets a node, and std::sort orders the nodes by
\* state; nodes with equal states come out in any order
InputHeapNew(ins) ==
  LET count == Len(ins)
      live == { i \in 1 .. count : ins[i] # NoFile /\ ins[i] # << >> }
      n == Cardinality(live)
      orders == { o \in [1 .. n -> live] :
                    /\ \A c, d \in 1 .. n : c # d => o[c] # o[d]
                    /\ \A c \in 1 .. (n - 1) : ins[o[c]][1][1] <= ins[o[c + 1]][1][1] }
  IN  { [heap |-> [c \in 1 .. count |->
                     IF c <= n THEN HeapNode(ins[o[c]][1], o[c]) ELSE HeapNode(NULL, 0)],
         size |-> n,
         pos |-> [i \in 1 .. count |-> IF i \in live THEN 1 ELSE 0]] : o \in orders }

getHead(h) == h.heap[1].state

\* a bubbleDown that looks at the first child only
RECURSIVE bubbleDownLeft(_, _, _)
bubbleDownLeft(nodes, size, pp) ==
  LET c == 2 * pp
  IN  IF c > size THEN nodes
      ELSE IF nodes[pp].state[1] <= nodes[c].state[1] THEN nodes
      ELSE bubbleDownLeft([nodes EXCEPT ![pp] = nodes[c], ![c] = nodes[pp]], size, c)

\* InputHeap::bubbleDown, from the node at pp
RECURSIVE bubbleDown(_, _, _)
bubbleDown(nodes, size, pp) ==
  LET c == 2 * pp
  IN  IF c > size THEN nodes
      ELSE LET pc == IF c < size /\ nodes[c + 1].state[1] < nodes[c].state[1]
                     THEN c + 1 ELSE c
           IN  IF nodes[pp].state[1] <= nodes[pc].state[1] THEN nodes
               ELSE bubbleDown([nodes EXCEPT ![pp] = nodes[pc], ![pc] = nodes[pp]], size, pc)

\* InputHeap::test: what the debug build asserts
test(h) ==
  \A q \in 1 .. (h.size - 1) :
    /\ q * 2 > h.size \/ h.heap[q].state[1] <= h.heap[q * 2].state[1]
    /\ q * 2 + 1 > h.size \/ h.heap[q].state[1] <= h.heap[q * 2 + 1].state[1]

\* InputHeap::next: the object afterwards and the value returned
InputHeapNext(ins, h) ==
  IF h.size = 0 THEN [h |-> h, result |-> FALSE]
  ELSE LET i == h.heap[1].input
           state == StreamRead(ins, h.pos, i)
           pos == IF state = NULL THEN h.pos ELSE [h.pos EXCEPT ![i] = @ + 1]
           read == [h.heap EXCEPT ![1].state = state]
       IN  IF state = NULL
           THEN LET moved == [read EXCEPT ![1] = read[h.size]]
                IN  IF h.size - 1 = 0
                    THEN [h |-> [heap |-> moved, size |-> 0, pos |-> pos], result |-> FALSE]
                    ELSE [h |-> [heap |-> bubbleDown(moved, h.size - 1, 1),
                                 size |-> h.size - 1, pos |-> pos],
                          result |-> TRUE]
           ELSE [h |-> [heap |-> bubbleDown(read, h.size, 1), size |-> h.size, pos |-> pos],
                 result |-> TRUE]

\* do head->state = head->input->read(); while (head->state && *head->state < limit):
\* << the state read last, pos afterwards >>
RECURSIVE ReadOn(_, _, _, _)
ReadOn(ins, pos, i, limit) ==
  LET state == StreamRead(ins, pos, i)
  IN  IF state = NULL THEN << NULL, pos >>
      ELSE IF state[1] < limit THEN ReadOn(ins, [pos EXCEPT ![i] = @ + 1], i, limit)
      ELSE << state, [pos EXCEPT ![i] = @ + 1] >>

\* scanTo from the label size1 on
ScanSize1(ins, h, target) ==
  LET r == ReadOn(ins, h.pos, h.heap[1].input, target[1])
      read == [h.heap EXCEPT ![1].state = r[1]]
  IN  IF r[1] = NULL
      THEN [h |-> [heap |-> read, size |-> 0, pos |-> r[2]], result |-> FALSE]
      ELSE [h |-> [heap |-> read, size |-> h.size, pos |-> r[2]], result |-> TRUE]

\* a scan loop that leaves the head where it is after reading
RECURSIVE ScanLoopNoBubble(_, _, _)
ScanLoopNoBubble(ins, h, target) ==
  LET minChild == IF h.size > 2 /\ h.heap[2].state[1] > h.heap[3].state[1]
                  THEN h.heap[3].state ELSE h.heap[2].state
      readUntil == IF target[1] > minChild[1] THEN minChild[1] ELSE target[1]
      r == ReadOn(ins, h.pos, h.heap[1].input, readUntil)
      read == [h.heap EXCEPT ![1].state = r[1]]
      moved == IF r[1] = NULL THEN [read EXCEPT ![1] = read[h.size]] ELSE read
      size == IF r[1] = NULL THEN h.size - 1 ELSE h.size
      b == [heap |-> moved, size |-> size, pos |-> r[2]]
  IN  IF size = 1 /\ getHead(b)[1] < target[1] THEN ScanSize1(ins, b, target)
      ELSE IF size > 1 /\ getHead(b)[1] < target[1] THEN ScanLoopNoBubble(ins, b, target)
      ELSE [h |-> b, result |-> TRUE]

\* one pass of the do loop of scanTo (size > 1) and what follows it
RECURSIVE ScanLoop(_, _, _)
ScanLoop(ins, h, target) ==
  LET minChild == IF h.size > 2 /\ h.heap[2].state[1] > h.heap[3].state[1]
                  THEN h.heap[3].state ELSE h.heap[2].state
      readUntil == IF target[1] > minChild[1] THEN minChild[1] ELSE target[1]
      r == ReadOn(ins, h.pos, h.heap[1].input, readUntil)
      read == [h.heap EXCEPT ![1].state = r[1]]
  IN  IF r[1] # NULL /\ r[1][1] <= minChild[1]
      THEN \* continue
           LET c == [heap |-> read, size |-> h.size, pos |-> r[2]]
           IN  IF r[1][1] < target[1] THEN ScanLoop(ins, c, target)
               ELSE [h |-> c, result |-> TRUE]
      ELSE LET moved == IF r[1] = NULL THEN [read EXCEPT ![1] = read[h.size]] ELSE read
               size == IF r[1] = NULL THEN h.size - 1 ELSE h.size
               b == [heap |-> bubbleDown(moved, size, 1), size |-> size, pos |-> r[2]]
           IN  IF size = 1
               THEN IF getHead(b)[1] < target[1] THEN ScanSize1(ins, b, target)
                    ELSE [h |-> b, result |-> TRUE]
               ELSE IF getHead(b)[1] < target[1] THEN ScanLoop(ins, b, target)
               ELSE [h |-> b, result |-> TRUE]

\* InputHeap::scanTo: the object afterwards and the value returned
InputHeapScanTo(ins, h, target) ==
  IF h.size = 0 THEN [h |-> h, result |-> FALSE]
  ELSE IF getHead(h)[1] >= target[1] THEN [h |-> h, result |-> TRUE]
  ELSE IF h.size > 1 THEN ScanLoop(ins, h, target)
  ELSE ScanSize1(ins, h, target)

\* a filter loop that returns at the end of the inputs without writing the
\* rest of the source
RECURSIVE filterLoopToEof(_, _)
filterLoopToEof(source, heap) ==
  IF source = << >> THEN << >>
  ELSE LET h == scanTo(heap, Head(source))
       IN  IF h = << >> THEN << >>
           ELSE IF Head(source)[1] < Head(h)[1]
                THEN << Head(source) >> \o filterLoopToEof(Tail(source), h)
           ELSE filterLoopToEof(Tail(source), h)

\* filterStream: the records written to output (and handed to the handler)
RECURSIVE filterLoop(_, _)
filterLoop(source, heap) ==
  IF source = << >> THEN << >>
  ELSE LET h == scanTo(heap, Head(source))
       IN  IF h = << >> THEN source
           ELSE IF Head(source)[1] < Head(h)[1]
                THEN << Head(source) >> \o filterLoop(Tail(source), h)
           ELSE filterLoop(Tail(source), h)

\* a filter that lets every record through
filterStreamNothing(source, inputs) == source

filterStream(source, inputs) == filterLoop(source, InputHeap(inputs))

\* mergeTwoStreams: <<output, output1>>.  last is the input advanced last
\* (0 or 1), or 2 after both were read; a common payload is written from
\* the input that was being advanced, from input1 after a pair.  The code
\* dereferences the first record of both inputs: they are non-empty.
RECURSIVE mergeTwoLoop(_, _, _)
mergeTwoLoop(a, c, last) ==
  IF a = << >> THEN << c, << >> >>
  ELSE IF c = << >> THEN << a, a >>
  ELSE IF Head(a)[1] = Head(c)[1]
       THEN LET r == mergeTwoLoop(Tail(a), Tail(c), 2)
            IN  << << IF last = 1 THEN Head(c) ELSE Head(a) >> \o r[1], r[2] >>
  ELSE IF Head(a)[1] < Head(c)[1]
       THEN LET r == mergeTwoLoop(Tail(a), c, 0)
            IN  << << Head(a) >> \o r[1], << Head(a) >> \o r[2] >>
  ELSE LET r == mergeTwoLoop(a, Tail(c), 1)
       IN  << << Head(c) >> \o r[1], r[2] >>

mergeTwoStreams(input1, input2) == mergeTwoLoop(input1, input2, 2)

(***************************************************************************)
(* The process memory threaded through one handler call:                   *)
(*   ram   the arena, one integer per unit                                 *)
(*   queue per group, NoQueue or the records buffered by the open writer   *)
(*   open  per group, NoFile or the records of open-g on disk              *)
(*   err   "" or the message of the error() that was thrown                *)
(***************************************************************************)
Groups(b) == 0 .. (MAX_FRAME_GROUPS(b) - 1)

\* WriteBuffer::write, for the writer of open-group
WriteBufferWrite(m, group, rec) ==
  LET buf == Append(m.queue[group], rec)
  IN  IF Len(buf) = STANDARD_BUFFER_SIZE
      THEN [m EXCEPT !.queue[group] = << >>, !.open[group] = @ \o buf]
      ELSE [m EXCEPT !.queue[group] = buf]

\* writeOpenState without the noQueue test
writeOpenStateAlways(b, m, cs, frame) ==
  LET group == frame \div b.K
      rec   == << cs, frame % b.K >>
  IN  IF m.err # "" THEN m
      ELSE IF group >= MAX_FRAME_GROUPS(b) THEN m
      ELSE IF m.queue[group] = NoQueue
           THEN IF m.open[group] # NoFile
                THEN [m EXCEPT !.err = "File creation failure"]
                ELSE WriteBufferWrite([m EXCEPT !.queue[group] = << >>,
                                                !.open[group] = << >>], group, rec)
      ELSE WriteBufferWrite(m, group, rec)

\* writeOpenState(state, frame); OutputStream::open uses CREATE_NEW
writeOpenState(b, m, cs, frame) ==
  LET group == frame \div b.K
      rec   == << cs, frame % b.K >>
  IN  IF m.err # "" THEN m
      ELSE IF group >= MAX_FRAME_GROUPS(b) THEN m
      ELSE IF m.noQueue[group] THEN m
      ELSE IF m.queue[group] = NoQueue
           THEN IF m.open[group] # NoFile
                THEN [m EXCEPT !.err = "File creation failure"]
                ELSE WriteBufferWrite([m EXCEPT !.queue[group] = << >>,
                                                !.open[group] = << >>], group, rec)
      ELSE WriteBufferWrite(m, group, rec)

\* cache[hash][i] lives in arena units StateCell and StateCell + 1
StateCell(b, hash, i) == 2 * (hash * NODES_PER_HASH(b) + i) + 1
FrameCell(b, hash, i) == StateCell(b, hash, i) + 1

\* addState(state, frame)
addState(b, m, state, frame) ==
  LET cs    == compress(state)
      hash  == Mod32(hashTable[cs], CACHE_HASH_SIZE(b))
      nodeState(i) == m.ram[StateCell(b, hash, i)]
      nodeFrame(i) == m.ram[FrameCell(b, hash, i)]
      hits  == { i \in 0 .. (NODES_PER_HASH(b) - 1) : nodeState(i) = cs }
      \* memmove(nodes+1, nodes, n * sizeof(CacheNode)), then nodes[0] = (cs, frame)
      moved(n) ==
        [ c \in DOMAIN m.ram |->
            IF c = StateCell(b, hash, 0) THEN cs
            ELSE IF c = FrameCell(b, hash, 0) THEN PACKED_FRAME(b, frame)
            ELSE IF c > FrameCell(b, hash, 0) /\ c <= FrameCell(b, hash, n) THEN m.ram[c - 2]
            ELSE m.ram[c] ]
  IN  IF m.err # "" THEN m
      ELSE IF hits # { }
      THEN LET i  == CHOOSE j \in hits : \A k \in hits : j <= k
               m1 == IF nodeFrame(i) > frame THEN writeOpenState(b, m, cs, frame) ELSE m
           IN  [m1 EXCEPT !.ram = moved(i)]
      ELSE writeOpenState(b, [m EXCEPT !.ram = moved(NODES_PER_HASH(b) - 1)], cs, frame)

\* the history of the calls: the record of every state handed to addState (or
\* seeded) with a frame below MAX_FRAMES, per group and in call order
RECURSIVE Emit(_, _, _)
Emit(b, e, children) ==
  IF children = << >> THEN e
  ELSE LET c == Head(children)
           group == c.frame \div b.K
       IN  Emit(b, IF group >= MAX_FRAME_GROUPS(b) THEN e
                   ELSE [e EXCEPT ![group] = Append(@, << compress(c.state), c.frame % b.K >>)],
                Tail(children))

\* the memory after every child, in order, went through addState
RECURSIVE addChildren(_, _, _)
addChildren(b, m, children) ==
  IF children = << >> THEN m
  ELSE CHOOSE r \in { addChildren(b, m1, Tail(children)) :
                        m1 \in { addState(b, m, Head(children).state,
                                          Head(children).frame) } } : TRUE

(***************************************************************************)
(* State                                                                   *)
(***************************************************************************)
VARIABLES
  build,                 \* the problem and build options, fixed for a behaviour
  \* files of the working directory, per group: NoFile or the records
  open, merged, closing, closed, allnew, all,
  chunk,                 \* per group, the sequence of chunk-g-i files
  solution,              \* solution.bin: [exists, group, state, steps]
  solutionTxt,           \* solution.txt: [exists, state (the initial state), steps]
  merging,               \* per group, NoFile or the records of merging-g
  stopFile,              \* TRUE while stop.txt exists
  \* memory of the running process
  pc, exitCode, queue, ram, ramUsed, firstFrameGroup, currentFrameGroup,
  exitFound, exitFrame, exitState,
  todo,                  \* records the filter has still to write and hand over
  exitSearchState, exitSearchStateFrame, exitSearchFrameGroup, steps,
  noQueue,               \* per group, the flag that suppresses writes to open-g
  maxFrameGroups,        \* the end of the range of groups the command works on
  command,               \* the command the process was started with
  \* the worker pool (MULTITHREADING)
  processQueue,          \* the circular buffer
  processQueueHead, processQueueTail,
  processQueueMutex,     \* the thread that holds the mutex, or Nobody
  runningWorkers, stopWorkers,
  thread,                \* per thread, the place it is at; thread 0 is the driver
  held,                  \* per worker, the record it dequeued last
  feed,                  \* the records the driver has still to queue in this phase
  phase,                 \* how many worker phases were started
  \* an InputHeap on its own
  heapInputs,            \* the inputs array: per input, NoFile or its records
  inputHeap,             \* the object: heap, size, and per input the records read
  heapCall,              \* the last call made on the heap, with its result
  \* a BufferedRewriteStream on its own
  rw,                    \* the stream: file, handle, positions, sector buffers, buffers
  rwCtl,                 \* where filterOpen stands with it, its head and the records written
  \* processState in the workers, lock by lock
  local,                 \* per worker, where it stands in processState and its locals
  cacheMutex,            \* per partition, the thread that holds cacheMutex[p], or Nobody
  queueMutex,            \* per group, the thread that holds queueMutex[g], or Nobody
  finishMutex,           \* the thread that holds finishMutex, or Nobody
  tempMutex,             \* the thread that holds the mutex of getTempString, or Nobody
  work,                  \* the record behind every number the driver queues in this phase
  made,                  \* per group, how many writers were created for open-g
  appended,              \* per group, the << worker, record >> pairs appended, in order
  expanded,              \* the numbers of the records whose children were generated
  \* history
  calls,                 \* the calls of addState made on the cache alone
  queued, handled,       \* the records queued, and the bag of << worker, record >> handled, in this phase
  atStart,               \* the open and closed files when the command was started
  restarts,              \* how often the process was started again
  killedAt,              \* the places at which a process was killed
  path,                  \* the parent/child pairs recorded by the exit trace
  emitted                \* per group, the records handed to addState or seeded

diskVars == << open, merged, closing, closed, allnew, all, chunk, solution, solutionTxt >>
searchVars == << queue, ram, ramUsed, firstFrameGroup, currentFrameGroup,
                 exitFound, exitFrame, exitState, todo >>
traceVars == << exitSearchState, exitSearchStateFrame, exitSearchFrameGroup, steps >>
auxFiles == << merging, stopFile >>
commandVars == << noQueue, maxFrameGroups, command, atStart >>
workerVars == << processQueue, processQueueHead, processQueueTail, processQueueMutex,
                runningWorkers, stopWorkers, thread, held, feed, phase, queued, handled >>
heapVars == << heapInputs, inputHeap, heapCall >>
rewriteVars == << rw, rwCtl >>
expandVars == << local, cacheMutex, queueMutex, finishMutex, tempMutex, work, made,
                 appended, expanded >>
componentVars == << heapVars, rewriteVars, expandVars >>
vars == << build, diskVars, pc, exitCode, searchVars, traceVars, restarts, killedAt, auxFiles, commandVars,
          path, emitted, calls, workerVars, componentVars >>

EXIT_OK == 0
EXIT_STOP == 1
EXIT_NOTFOUND == 2
EXIT_ERROR == 3

K == build.K

NoFiles == [g \in Groups(build) |-> NoFile]

\* what malloc(RAM_SIZE) hands out: the arena is never initialised as a whole,
\* so its units hold zeroes (fresh pages) or what was there before; the stale
\* image has one cache node's worth of old bytes that read as state 3, frame 0
ArenaImages(b) ==
  IF b.arena = "fresh"
  THEN { [c \in 1 .. RAM_SIZE(b) |-> 0] }
  ELSE { [c \in 1 .. RAM_SIZE(b) |->
            IF c = StateCell(b, Mod32(hashTable[3], CACHE_HASH_SIZE(b)),
                             NODES_PER_HASH(b) - 1)
            THEN 3 ELSE 0] }

\* the globals of a freshly started process: static storage is zeroed
FreshMemory ==
  /\ queue' = [g \in Groups(build) |-> NoQueue]
  /\ ram' \in ArenaImages(build)
  /\ ramUsed' = 0
  /\ firstFrameGroup' = 0
  /\ currentFrameGroup' = 0
  /\ exitFound' = FALSE
  /\ exitFrame' = 0
  /\ exitState' = 0
  /\ todo' = << >>
  /\ exitSearchState' = 0
  /\ exitSearchStateFrame' = 0
  /\ exitSearchFrameGroup' = 0
  /\ steps' = << >>

\* the worker pool of a build with THREADS - 1 = w before any phase: static
\* storage is zeroed, no thread but the driver runs
Pool(w) ==
  /\ processQueue = [i \in 0 .. (PROCESS_QUEUE_SIZE - 1) |-> 0]
  /\ processQueueHead = 0 /\ processQueueTail = 0
  /\ processQueueMutex = Nobody
  /\ runningWorkers = 0 /\ stopWorkers = FALSE
  /\ thread = [i \in 0 .. w |-> "idle"]
  /\ held = [i \in 1 .. w |-> 0]
  /\ feed = << >>
  /\ phase = 0
  /\ queued = << >> /\ handled = EmptyBag

NoWorkers == Pool(MaxWorkers)

\* no InputHeap is looked at on its own
NoHeap ==
  /\ heapInputs = << >>
  /\ inputHeap = [heap |-> << >>, size |-> 0, pos |-> << >>]
  /\ heapCall = [op |-> "none", result |-> FALSE]

NoRewrite ==
  /\ rw = [archive |-> FALSE]
  /\ rwCtl = [pc |-> "none"]

\* no worker runs processState
NoExpand ==
  /\ local = << >>
  /\ cacheMutex = << >> /\ queueMutex = << >>
  /\ finishMutex = Nobody /\ tempMutex = Nobody
  /\ work = << >>
  /\ made = << >> /\ appended = << >>
  /\ expanded = { }

\* the parts that are looked at on their own are not in use
Unused == NoHeap /\ NoRewrite /\ NoExpand

\* the state when search is started in an empty directory, for a build of bs
Fresh(bs) ==
  /\ build \in bs
  /\ open = NoFiles /\ merged = NoFiles /\ closing = NoFiles
  /\ closed = NoFiles /\ allnew = NoFiles /\ all = NoFiles
  /\ chunk = [g \in Groups(build) |-> << >>]
  /\ solution = NoSolution /\ solutionTxt = NoSolution
  /\ merging = NoFiles /\ stopFile = FALSE
  /\ noQueue = [g \in Groups(build) |-> FALSE]
  /\ maxFrameGroups = MAX_FRAME_GROUPS(build)
  /\ atStart = [open |-> NoFiles, closed |-> NoFiles]
  /\ command = "search"
  /\ pc = "start" /\ exitCode = EXIT_OK
  /\ queue = [g \in Groups(build) |-> NoQueue]
  /\ ram \in ArenaImages(build)
  /\ ramUsed = 0
  /\ firstFrameGroup = 0 /\ currentFrameGroup = 0
  /\ exitFound = FALSE /\ exitFrame = 0 /\ exitState = 0
  /\ todo = << >>
  /\ exitSearchState = 0 /\ exitSearchStateFrame = 0 /\ exitSearchFrameGroup = 0
  /\ steps = << >>
  /\ restarts = 0
  /\ killedAt = { }
  /\ path = << >>
  /\ emitted = [g \in Groups(build) |-> << >>]
  /\ calls = << >>

Init == Fresh(Builds) /\ NoWorkers /\ Unused

\* error(): the exception ends the process with EXIT_ERROR
Fail == pc' = "done" /\ exitCode' = EXIT_ERROR

Memory == [ram |-> ram, queue |-> queue, open |-> open, noQueue |-> noQueue, err |-> ""]

(***************************************************************************)
(* search(): start-up                                                      *)
(***************************************************************************)
\* the resume point found by the scan for closed files
ResumeGroup ==
  LET found == { g \in 1 .. MAX_FRAME_GROUPS(build) :
                   g \in Groups(build) /\ closed[g] # NoFile }
  IN  IF found = { } THEN 0
      ELSE (CHOOSE g \in found : \A h \in found : h <= g) + 1

\* a seeding loop that stops after the first initial state
seedFirstState(m, init) ==
  IF init = << >> THEN m ELSE writeOpenState(build, m, compress(Head(init)), 0)

RECURSIVE seedInitialStates(_, _)
seedInitialStates(m, init) ==
  IF init = << >> THEN m
  ELSE seedInitialStates(writeOpenState(build, m, compress(Head(init)), 0), Tail(init))

\* search() up to the main loop, when no solution.bin exists
Start ==
  /\ pc = "start"
  /\ ~solution.exists
  /\ LET first == ResumeGroup
         q1 == [g \in Groups(build) |->
                  IF g >= first /\ open[g] # NoFile THEN << >> ELSE NoQueue]
         m0 == [Memory EXCEPT !.queue = q1]
         m1 == IF first = 0 /\ q1[0] = NoQueue
               THEN seedInitialStates(m0, Problems[build.prob].initialStates)
               ELSE m0
     IN  /\ firstFrameGroup' = first
         /\ currentFrameGroup' = first
         /\ queue' = m1.queue
         /\ open' = m1.open
         /\ emitted' = IF first = 0 /\ q1[0] = NoQueue
                       THEN Emit(build, emitted,
                                 [i \in DOMAIN Problems[build.prob].initialStates |->
                                    [state |-> Problems[build.prob].initialStates[i],
                                     frame |-> 0]])
                       ELSE emitted
  /\ pc' = "loop"
  /\ UNCHANGED << calls, workerVars, componentVars, build, merged, closing, closed, allnew, all, chunk, solution,
                  solutionTxt, exitCode, ram, ramUsed, exitFound, exitFrame,
                  exitState, todo, traceVars, restarts, killedAt, auxFiles, commandVars, path >>

\* search() finds solution.bin and calls traceExit(NULL, 0), which reads it
StartResumeTrace ==
  /\ pc = "start"
  /\ solution.exists
  /\ exitSearchFrameGroup' = solution.group
  /\ exitSearchState' = solution.state
  /\ steps' = solution.steps
  /\ pc' = "trace"
  /\ UNCHANGED << calls, workerVars, componentVars, build, diskVars, exitCode, searchVars, exitSearchStateFrame,
                  restarts, killedAt, auxFiles, commandVars, path, emitted >>

(***************************************************************************)
(* search(): one group step                                                *)
(***************************************************************************)
\* a loop bound that is one group short
NotFoundEarly ==
  /\ pc = "loop"
  /\ currentFrameGroup >= maxFrameGroups - 1
  /\ pc' = "done" /\ exitCode' = EXIT_NOTFOUND
  /\ UNCHANGED << calls, workerVars, componentVars, build, diskVars, searchVars, traceVars, restarts, killedAt, auxFiles, commandVars, path, emitted >>

\* for (currentFrameGroup = firstFrameGroup; currentFrameGroup < maxFrameGroups;
\* ...) has run out: return EXIT_NOTFOUND
NotFound ==
  /\ pc = "loop"
  /\ currentFrameGroup >= maxFrameGroups
  /\ pc' = "done" /\ exitCode' = EXIT_NOTFOUND
  /\ UNCHANGED << calls, workerVars, componentVars, build, diskVars, searchVars, traceVars, restarts, killedAt, auxFiles, commandVars, path, emitted >>

SkipGroup ==
  /\ pc = "loop"
  /\ currentFrameGroup < maxFrameGroups
  /\ queue[currentFrameGroup] = NoQueue
  /\ currentFrameGroup' = currentFrameGroup + 1
  /\ UNCHANGED << calls, workerVars, componentVars, build, diskVars, pc, exitCode, queue, ram, ramUsed,
                  firstFrameGroup, exitFound, exitFrame, exitState, todo,
                  traceVars, restarts, killedAt, auxFiles, commandVars, path, emitted >>

\* delete queue[currentFrameGroup]: the writer flushes its buffer and closes
CloseQueue ==
  /\ pc = "loop"
  /\ currentFrameGroup < maxFrameGroups
  /\ queue[currentFrameGroup] # NoQueue
  /\ open' = [open EXCEPT ![currentFrameGroup] = @ \o queue[currentFrameGroup]]
  /\ queue' = [queue EXCEPT ![currentFrameGroup] = NoQueue]
  /\ pc' = IF merged[currentFrameGroup] # NoFile THEN "clear" ELSE "sort"
  /\ UNCHANGED << calls, workerVars, componentVars, build, merged, closing, closed, allnew, all, chunk, solution,
                  solutionTxt, exitCode, ram, ramUsed, firstFrameGroup,
                  currentFrameGroup, exitFound, exitFrame, exitState, todo,
                  traceVars, restarts, killedAt, auxFiles, commandVars, path, emitted >>

\* the pieces of amount records that input.read(buffer, amount) returns
RECURSIVE ReadChunks(_, _)
ReadChunks(s, amount) ==
  IF s = << >> \/ amount = 0 THEN << >>
  ELSE IF Len(s) <= amount THEN << s >>
  ELSE << SubSeq(s, 1, amount) >> \o ReadChunks(SubSeq(s, amount + 1, Len(s)), amount)

Min(a, c) == IF a < c THEN a ELSE c

\* the buffer after std::sort and the in-place deduplicate of one piece
SortedBuffer(piece) ==
  LET sorted == SortNodes(piece)
      dedup  == deduplicate(sorted)
  IN  dedup \o SubSeq(sorted, Len(dedup) + 1, Len(sorted))

\* a chunk loop without its std::sort
UnsortedChunk(piece) == deduplicate(piece)

\* what one pass of the chunk loop writes to its chunk file
SortedChunk(piece) == deduplicate(SortNodes(piece))

\* the arena after records were stored at its start, one unit per record
Overlay(r, buf) == [c \in DOMAIN r |-> IF c <= Len(buf) THEN buf[c][1] ELSE r[c]]

\* the arena after the pieces were sorted in the buffer one after the other
RECURSIVE BufferAfter(_, _)
BufferAfter(r, pieces) ==
  IF pieces = << >> THEN r
  ELSE BufferAfter(Overlay(r, SortedBuffer(Head(pieces))), Tail(pieces))

\* the arena after copyFile read the pieces into the buffer
RECURSIVE CopyBuffer(_, _)
CopyBuffer(r, pieces) ==
  IF pieces = << >> THEN r
  ELSE CopyBuffer(Overlay(r, Head(pieces)), Tail(pieces))

\* sortAndMerge, step 1: sorted, deduplicated chunks of at most BUFFER_SIZE records
SortChunks ==
  /\ pc = "sort"
  /\ LET g      == currentFrameGroup
         pieces == ReadChunks(open[g], Min(Len(open[g]), BUFFER_SIZE(build)))
     IN  IF pieces # << >> /\ chunk[g] # << >>
         THEN \* OutputStream::open(CREATE_NEW) on a chunk file that exists
              /\ Fail
              /\ ramUsed' = Len(pieces[1])
              /\ ram' = BufferAfter(ram, << pieces[1] >>)
              /\ UNCHANGED chunk
         ELSE /\ chunk' = [chunk EXCEPT ![g] =
                             [i \in 1 .. Len(pieces) |-> SortedChunk(pieces[i])]]
              /\ ramUsed' = IF pieces = << >> THEN 0 ELSE Len(pieces[1])
              /\ ram' = BufferAfter(ram, pieces)
              /\ pc' = "merge"
              /\ UNCHANGED exitCode
  /\ UNCHANGED << calls, workerVars, componentVars, build, open, merged, closing, closed, allnew, all, solution,
                  solutionTxt, queue, firstFrameGroup, currentFrameGroup,
                  exitFound, exitFrame, exitState, todo, traceVars, restarts, killedAt, auxFiles, commandVars, path, emitted >>

\* sortAndMerge, step 2: with several chunks, create merging-g and merge the
\* chunks into it; with one, rename chunk-g-0 to merged-g
MergeChunks ==
  /\ pc = "merge"
  /\ LET g == currentFrameGroup
     IN  IF Len(chunk[g]) > 1
         THEN IF merging[g] # NoFile
              THEN \* OutputStream::open(CREATE_NEW) on a merging-g that exists
                   Fail /\ UNCHANGED << merged, merging, chunk >>
              ELSE /\ merging' = [merging EXCEPT ![g] = mergeStreams(chunk[g])]
                   /\ pc' = "merged"
                   /\ UNCHANGED << merged, chunk, exitCode >>
         ELSE IF chunk[g] = << >>
         THEN \* renameFile of a chunk-g-0 that does not exist
              Fail /\ merged' = [merged EXCEPT ![g] = NoFile] /\ UNCHANGED << merging, chunk >>
         ELSE /\ merged' = [merged EXCEPT ![g] = chunk[g][1]]
              /\ chunk' = [chunk EXCEPT ![g] = << >>]
              /\ pc' = "clear"
              /\ UNCHANGED << merging, exitCode >>
  /\ UNCHANGED << calls, workerVars, componentVars, build, open, closing, closed, allnew, all, solution, solutionTxt,
                  searchVars, traceVars, restarts, killedAt, stopFile, commandVars,
                  path, emitted >>

\* renameFile(merging-g, merged-g)
RenameMerging ==
  /\ pc = "merged"
  /\ LET g == currentFrameGroup
     IN  /\ merged' = [merged EXCEPT ![g] = merging[g]]
         /\ merging' = [merging EXCEPT ![g] = NoFile]
  /\ pc' = "delchunks"
  /\ UNCHANGED << calls, workerVars, componentVars, build, open, closing, closed, allnew, all, chunk, solution,
                  solutionTxt, exitCode, searchVars, traceVars, restarts, killedAt,
                  stopFile, commandVars, path, emitted >>

\* deleteFile(chunk-g-i) for every chunk
DeleteChunks ==
  /\ pc = "delchunks"
  /\ chunk' = [chunk EXCEPT ![currentFrameGroup] = << >>]
  /\ pc' = "clear"
  /\ UNCHANGED << calls, workerVars, componentVars, build, open, merged, closing, closed, allnew, all, solution,
                  solutionTxt, exitCode, searchVars, traceVars, restarts, killedAt,
                  auxFiles, commandVars, path, emitted >>

\* memset(ram, 0, ramUsed)
ClearCache ==
  /\ pc = "clear"
  /\ ram' = [c \in DOMAIN ram |-> IF c <= ramUsed THEN 0 ELSE ram[c]]
  /\ pc' = "filter"
  /\ UNCHANGED << calls, workerVars, componentVars, build, diskVars, exitCode, queue, ramUsed, firstFrameGroup,
                  currentFrameGroup, exitFound, exitFrame, exitState, todo,
                  traceVars, restarts, killedAt, auxFiles, commandVars, path, emitted >>

\* lastAll(): the largest g with an all-g file, -1 when there is none
lastAll ==
  LET found == { g \in Groups(build) : all[g] # NoFile }
  IN  IF found = { } THEN -1 ELSE CHOOSE g \in found : \A h \in found : h <= g

\* inputs[g] for the closed files of groups lo .. hi-1; a stream that was not
\* opened reads as empty
ClosedInputs(lo, hi) ==
  [ i \in 1 .. (IF hi > lo THEN hi - lo ELSE 0) |->
      IF closed[lo + i - 1] # NoFile THEN closed[lo + i - 1] ELSE << >> ]

\* the second input of mergeTwoStreams in the USE_ALL build: the latest all
\* file, together with the closed files that it does not yet include
AllInput ==
  InputHeap(ClosedInputs(lastAll + 1, currentFrameGroup) \o << all[lastAll] >>)

\* Step 3 begins (non-USE_ALL): open merged-g and the closed files, replace
\* closing-g; what filterStream will write is kept in todo
FilterBegin ==
  /\ pc = "filter"
  /\ ~build.useAll
  /\ LET g == currentFrameGroup
     IN  /\ todo' = filterStream(merged[g], ClosedInputs(0, g))
         /\ closing' = [closing EXCEPT ![g] = << >>]
  /\ pc' = "process"
  /\ UNCHANGED << calls, workerVars, componentVars, build, open, merged, closed, allnew, all, chunk, solution,
                  solutionTxt, exitCode, queue, ram, ramUsed, firstFrameGroup,
                  currentFrameGroup, exitFound, exitFrame, exitState,
                  traceVars, restarts, killedAt, auxFiles, commandVars, path, emitted >>

\* Step 3 begins (USE_ALL, group 0): copyFile(merged-0, closing-0) through the
\* arena, merged-0 becomes allnew-0, closing-0 is read back
FilterBeginAll0 ==
  /\ pc = "filter"
  /\ build.useAll
  /\ currentFrameGroup = 0
  /\ IF closing[0] # NoFile
     THEN Fail /\ UNCHANGED << closing, allnew, merged, ram, todo >>
     ELSE /\ closing' = [closing EXCEPT ![0] = merged[0]]
          /\ ram' = CopyBuffer(ram, ReadChunks(merged[0], Min(Len(merged[0]), BUFFER_SIZE(build))))
          /\ allnew' = [allnew EXCEPT ![0] = merged[0]]
          /\ merged' = [merged EXCEPT ![0] = NoFile]
          /\ todo' = merged[0]
          /\ pc' = "process"
          /\ UNCHANGED exitCode
  /\ UNCHANGED << calls, workerVars, componentVars, build, open, closed, all, chunk, solution, solutionTxt, queue,
                  ramUsed, firstFrameGroup, currentFrameGroup, exitFound,
                  exitFrame, exitState, traceVars, restarts, killedAt, auxFiles, commandVars, path, emitted >>

\* Step 3 begins (USE_ALL, later groups): allnew-g and closing-g are created,
\* mergeTwoStreams will write merged-g minus the all file to closing-g
FilterBeginAll ==
  /\ pc = "filter"
  /\ build.useAll
  /\ currentFrameGroup > 0
  /\ LET g == currentFrameGroup
     IN  IF lastAll = -1
         THEN Fail /\ UNCHANGED << allnew, closing, todo >>
         ELSE IF allnew[g] # NoFile
         THEN Fail /\ UNCHANGED << allnew, closing, todo >>
         ELSE IF closing[g] # NoFile
         THEN Fail /\ allnew' = [allnew EXCEPT ![g] = << >>] /\ UNCHANGED << closing, todo >>
         ELSE IF merged[g] = << >> \/ AllInput = << >>
         THEN Fail /\ allnew' = [allnew EXCEPT ![g] = << >>]
                   /\ closing' = [closing EXCEPT ![g] = << >>] /\ UNCHANGED todo
         ELSE /\ allnew' = [allnew EXCEPT ![g] = << >>]
              /\ closing' = [closing EXCEPT ![g] = << >>]
              /\ todo' = mergeTwoStreams(merged[g], AllInput)[2]
              /\ pc' = "process"
              /\ UNCHANGED exitCode
  /\ UNCHANGED << calls, workerVars, componentVars, build, open, merged, closed, all, chunk, solution, solutionTxt,
                  queue, ram, ramUsed, firstFrameGroup, currentFrameGroup,
                  exitFound, exitFrame, exitState, traceVars, restarts, killedAt, auxFiles, commandVars, path, emitted >>

\* finishCheck(s, frame): <<exitFound, exitFrame, exitState>> afterwards
finishCheck(s, frame) ==
  IF exitFound
  THEN IF exitFrame > frame THEN << TRUE, frame, s >>
       ELSE << TRUE, exitFrame, exitState >>
  ELSE << TRUE, frame, s >>

\* processState(cs) for a state that is not a finish state: the memory after
\* every child went through addState
processState(m, rec) ==
  LET s == decompress(rec[1])
      currentFrame == GET_FRAME(build, currentFrameGroup, rec)
  IN  addChildren(build, m, expandChildren(build, currentFrame, s))

\* the filter writes its next record to closing-g and hands it to processState
ProcessRecord ==
  /\ pc = "process"
  /\ todo # << >>
  /\ LET rec == Head(todo)
         g   == currentFrameGroup
         s   == decompress(rec[1])
     IN  /\ closing' = IF build.useAll /\ g = 0 THEN closing
                       ELSE [closing EXCEPT ![g] = Append(@, rec)]
         /\ todo' = Tail(todo)
         /\ IF isFinish(build, s)
            THEN LET f == finishCheck(s, GET_FRAME(build, g, rec))
                 IN  /\ exitFound' = f[1] /\ exitFrame' = f[2] /\ exitState' = f[3]
                     /\ UNCHANGED << ram, queue, open, pc, exitCode, emitted >>
            ELSE \E m \in { processState(Memory, rec) } :
                     /\ ram' = m.ram /\ queue' = m.queue /\ open' = m.open
                     /\ IF m.err # "" THEN Fail ELSE UNCHANGED << pc, exitCode >>
                     /\ emitted' = Emit(build, emitted,
                                        expandChildren(build, GET_FRAME(build, g, rec), s))
                     /\ UNCHANGED << exitFound, exitFrame, exitState >>
  /\ UNCHANGED << calls, workerVars, componentVars, build, merged, closed, allnew, all, chunk, solution, solutionTxt,
                  ramUsed, firstFrameGroup, currentFrameGroup, traceVars,
                  restarts, killedAt, auxFiles, commandVars, path >>

\* flushOpen(): every open writer writes its buffer to its file
FlushedOpen == [g \in Groups(build) |->
                  IF queue[g] # NoQueue THEN open[g] \o queue[g] ELSE open[g]]
FlushedQueue == [g \in Groups(build) |-> IF queue[g] # NoQueue THEN << >> ELSE NoQueue]

\* the filter is through: outputs are flushed, merged-g is deleted (it became
\* allnew-0 in the USE_ALL build at group 0), flushOpen()
FilterEnd ==
  /\ pc = "process"
  /\ todo = << >>
  /\ LET g == currentFrameGroup
     IN  IF build.useAll /\ g = 0 THEN UNCHANGED << merged, allnew >>
         ELSE /\ merged' = [merged EXCEPT ![g] = NoFile]
              /\ allnew' = IF build.useAll
                           THEN [allnew EXCEPT ![g] = mergeTwoStreams(merged[g], AllInput)[1]]
                           ELSE allnew
  /\ open' = FlushedOpen
  /\ queue' = FlushedQueue
  /\ pc' = "exitcheck"
  /\ UNCHANGED << calls, workerVars, componentVars, build, closing, closed, all, chunk, solution, solutionTxt,
                  exitCode, ram, ramUsed, firstFrameGroup, currentFrameGroup,
                  exitFound, exitFrame, exitState, todo, traceVars, restarts, killedAt, auxFiles, commandVars, path, emitted >>

\* if (exitFound) traceExit(&exitState, exitFrame), up to its loop
ExitFound ==
  /\ pc = "exitcheck"
  /\ exitFound
  /\ exitSearchState' = exitState
  /\ exitSearchStateFrame' = exitFrame
  /\ exitSearchFrameGroup' = exitFrame \div K
  /\ path' = << >>
  /\ pc' = "trace"
  /\ UNCHANGED << calls, workerVars, componentVars, build, diskVars, exitCode, searchVars, steps, restarts, killedAt, auxFiles, commandVars, emitted >>

\* deleteFile(open-g)
DeleteOpen ==
  /\ pc = "exitcheck"
  /\ ~exitFound
  /\ IF open[currentFrameGroup] = NoFile
     THEN Fail /\ UNCHANGED open
     ELSE /\ open' = [open EXCEPT ![currentFrameGroup] = NoFile]
          /\ pc' = "rename"
          /\ UNCHANGED exitCode
  /\ UNCHANGED << calls, workerVars, componentVars, build, merged, closing, closed, allnew, all, chunk, solution,
                  solutionTxt, searchVars, traceVars, restarts, killedAt, auxFiles, commandVars, path, emitted >>

\* renameFile(closing-g, closed-g): the target is deleted first
RenameClosing ==
  /\ pc = "rename"
  /\ LET g == currentFrameGroup
     IN  IF closing[g] = NoFile
         THEN Fail /\ closed' = [closed EXCEPT ![g] = NoFile] /\ UNCHANGED closing
         ELSE /\ closed' = [closed EXCEPT ![g] = closing[g]]
              /\ closing' = [closing EXCEPT ![g] = NoFile]
              /\ pc' = IF build.useAll THEN "delall" ELSE "next"
              /\ UNCHANGED exitCode
  /\ UNCHANGED << calls, workerVars, componentVars, build, open, merged, allnew, all, chunk, solution, solutionTxt,
                  searchVars, traceVars, restarts, killedAt, auxFiles, commandVars, path, emitted >>

\* a promotion that leaves the older all file in place
KeepAll ==
  /\ pc = "delall"
  /\ pc' = "renall"
  /\ UNCHANGED << calls, workerVars, componentVars, build, diskVars, exitCode, searchVars, traceVars, restarts, killedAt,
                  auxFiles, commandVars, path, emitted >>

\* USE_ALL: if (currentFrameGroup > 0) deleteFile(all-lastAll())
DeleteAll ==
  /\ pc = "delall"
  /\ IF currentFrameGroup = 0
     THEN pc' = "renall" /\ UNCHANGED << all, exitCode >>
     ELSE IF lastAll = -1
     THEN Fail /\ UNCHANGED all
     ELSE /\ all' = [all EXCEPT ![lastAll] = NoFile]
          /\ pc' = "renall"
          /\ UNCHANGED exitCode
  /\ UNCHANGED << calls, workerVars, componentVars, build, open, merged, closing, closed, allnew, chunk, solution,
                  solutionTxt, searchVars, traceVars, restarts, killedAt, auxFiles, commandVars, path, emitted >>

\* USE_ALL: renameFile(allnew-g, all-g)
RenameAll ==
  /\ pc = "renall"
  /\ LET g == currentFrameGroup
     IN  IF allnew[g] = NoFile
         THEN Fail /\ all' = [all EXCEPT ![g] = NoFile] /\ UNCHANGED allnew
         ELSE /\ all' = [all EXCEPT ![g] = allnew[g]]
              /\ allnew' = [allnew EXCEPT ![g] = NoFile]
              /\ pc' = "next"
              /\ UNCHANGED exitCode
  /\ UNCHANGED << calls, workerVars, componentVars, build, open, merged, closing, closed, chunk, solution,
                  solutionTxt, searchVars, traceVars, restarts, killedAt, auxFiles, commandVars, path, emitted >>

\* the queues of the open writers hold no record that is not in a file
Flushed == \A g \in Groups(build) : queue[g] \in { NoQueue, << >> }

\* group g is fully promoted: open-g deleted, closing-g renamed to closed-g,
\* merged-g gone, and with USE_ALL allnew-g renamed to all-g
Promoted(g) ==
  /\ open[g] = NoFile /\ merged[g] = NoFile /\ closing[g] = NoFile
  /\ closed[g] # NoFile
  /\ build.useAll => allnew[g] = NoFile /\ all[g] # NoFile

\* a checkStop() that is also called before the group is promoted
StopBeforePromotion ==
  /\ pc \in { "exitcheck", "next" }
  /\ stopFile
  /\ stopFile' = FALSE
  /\ pc' = "done" /\ exitCode' = EXIT_STOP
  /\ UNCHANGED << calls, workerVars, componentVars, build, diskVars, searchVars, traceVars, restarts, killedAt, merging,
                  commandVars, path, emitted >>

\* checkStop() finds stop.txt: the file is deleted, search returns EXIT_STOP
Stop ==
  /\ pc = "next"
  /\ stopFile
  /\ stopFile' = FALSE
  /\ pc' = "done" /\ exitCode' = EXIT_STOP
  /\ UNCHANGED << calls, workerVars, componentVars, build, diskVars, searchVars, traceVars, restarts, killedAt, merging,
                  commandVars, path, emitted >>

\* checkStop() finds no stop.txt; end of the loop body: the next group
NextGroup ==
  /\ pc = "next"
  /\ ~stopFile
  /\ currentFrameGroup' = currentFrameGroup + 1
  /\ pc' = "loop"
  /\ UNCHANGED << calls, workerVars, componentVars, build, diskVars, exitCode, queue, ram, ramUsed, firstFrameGroup,
                  exitFound, exitFrame, exitState, todo, traceVars, restarts,
                  killedAt, auxFiles, commandVars, path, emitted >>

(***************************************************************************)
(* traceExit                                                               *)
(***************************************************************************)
Range(f) == { f[i] : i \in DOMAIN f }

\* a handler that compares the state and not the frame
handleChildAnyFrame(state, frame) == state = exitSearchState

\* FinishCheckChildHandler::handleChild: is this child the state searched for
handleChild(state, frame) ==
  state = exitSearchState /\ frame = exitSearchStateFrame

\* processExitState over the records of closed-g: every (parent, child) pair
\* that handleChild records
Matches(g) ==
  { m \in UNION { { [parent |-> decompress(rec[1]),
                     parentFrame |-> GET_FRAME(build, g, rec),
                     step |-> c.step, state |-> c.state, frame |-> c.frame] :
                      c \in Range(expandChildren(build, GET_FRAME(build, g, rec),
                                                 decompress(rec[1]))) } :
                  rec \in Range(closed[g]) } :
      handleChild(m.state, m.frame) }

\* a loop that falls through to found when the group index is negative
TraceSaveFound ==
  /\ pc = "trace"
  /\ IF exitSearchFrameGroup >= 0
     THEN /\ solution' = [exists |-> TRUE, group |-> exitSearchFrameGroup,
                          state |-> exitSearchState, steps |-> steps]
          /\ exitSearchFrameGroup' = exitSearchFrameGroup - 1
          /\ pc' = IF exitSearchFrameGroup - 1 >= 0 /\ closed[exitSearchFrameGroup - 1] # NoFile
                   THEN "tracescan" ELSE "trace"
     ELSE pc' = "tracewrite" /\ UNCHANGED << solution, exitSearchFrameGroup >>
  /\ UNCHANGED << calls, workerVars, componentVars, build, open, merged, closing, closed, allnew, all, chunk,
                  solutionTxt, searchVars, exitSearchState, exitSearchStateFrame, exitCode,
                  steps, restarts, killedAt, auxFiles, commandVars, path, emitted >>

\* one iteration of the loop up to the scan: solution.bin is written, the
\* group index goes down; "Lost parent node!" once it is negative
TraceSave ==
  /\ pc = "trace"
  /\ IF exitSearchFrameGroup >= 0
     THEN /\ solution' = [exists |-> TRUE, group |-> exitSearchFrameGroup,
                          state |-> exitSearchState, steps |-> steps]
          /\ exitSearchFrameGroup' = exitSearchFrameGroup - 1
          /\ pc' = IF exitSearchFrameGroup - 1 >= 0 /\ closed[exitSearchFrameGroup - 1] # NoFile
                   THEN "tracescan" ELSE "trace"
          /\ UNCHANGED exitCode
     ELSE Fail /\ UNCHANGED << solution, exitSearchFrameGroup >>
  /\ UNCHANGED << calls, workerVars, componentVars, build, open, merged, closing, closed, allnew, all, chunk,
                  solutionTxt, searchVars, exitSearchState, exitSearchStateFrame,
                  steps, restarts, killedAt, auxFiles, commandVars, path, emitted >>

\* a trace that goes on to found one group early
TraceScanEarly ==
  /\ pc = "tracescan"
  /\ LET g == exitSearchFrameGroup
     IN  IF Matches(g) = { }
         THEN /\ pc' = "trace"
              /\ UNCHANGED << steps, exitSearchState, exitSearchStateFrame, path >>
         ELSE \E m \in Matches(g) :
                /\ steps' = Append(steps, m.step)
                /\ exitSearchState' = m.parent
                /\ exitSearchStateFrame' = m.parentFrame
                /\ path' = Append(path, [parent |-> m.parent, parentFrame |-> m.parentFrame,
                                         step |-> m.step, state |-> exitSearchState,
                                         frame |-> exitSearchStateFrame])
                /\ pc' = IF g <= 1 THEN "tracewrite" ELSE "trace"
  /\ UNCHANGED << calls, workerVars, componentVars, build, diskVars, exitCode, searchVars, exitSearchFrameGroup, restarts, killedAt, auxFiles, commandVars, emitted >>

\* closed-g is fed to processExitState; a recorded parent becomes the state
\* searched for, and the trace ends when that happens in group 0
TraceScan ==
  /\ pc = "tracescan"
  /\ LET g == exitSearchFrameGroup
     IN  IF Matches(g) = { }
         THEN /\ pc' = "trace"
              /\ UNCHANGED << steps, exitSearchState, exitSearchStateFrame, path >>
         ELSE \E m \in Matches(g) :
                /\ steps' = Append(steps, m.step)
                /\ exitSearchState' = m.parent
                /\ exitSearchStateFrame' = m.parentFrame
                /\ path' = Append(path, [parent |-> m.parent, parentFrame |-> m.parentFrame,
                                         step |-> m.step, state |-> exitSearchState,
                                         frame |-> exitSearchStateFrame])
                /\ pc' = IF g = 0 THEN "tracewrite" ELSE "trace"
  /\ UNCHANGED << calls, workerVars, componentVars, build, diskVars, exitCode, searchVars, exitSearchFrameGroup, restarts, killedAt, auxFiles, commandVars, emitted >>

\* writeSolution(&exitSearchState, steps, stepNr)
TraceWrite ==
  /\ pc = "tracewrite"
  /\ solutionTxt' = [exists |-> TRUE, group |-> 0, state |-> exitSearchState,
                      steps |-> steps]
  /\ pc' = "tracedel"
  /\ UNCHANGED << calls, workerVars, componentVars, build, open, merged, closing, closed, allnew, all, chunk, solution,
                  exitCode, searchVars, traceVars, restarts, killedAt, auxFiles, commandVars, path, emitted >>

\* deleteFile(solution.bin); search returns EXIT_OK
TraceDelete ==
  /\ pc = "tracedel"
  /\ IF ~solution.exists
     THEN Fail /\ UNCHANGED solution
     ELSE solution' = NoSolution /\ pc' = "done" /\ exitCode' = EXIT_OK
  /\ UNCHANGED << calls, workerVars, componentVars, build, open, merged, closing, closed, allnew, all, chunk,
                  solutionTxt, searchVars, traceVars, restarts, killedAt, auxFiles, commandVars, path, emitted >>

(***************************************************************************)
(* The environment: the process is killed, the command is run again        *)
(***************************************************************************)
Running == pc \notin { "start", "done" }

\* where in search() the process stands: between two group steps, in a group
\* step, between deleteFile(open-g) and renameFile(closing-g, closed-g), or
\* in traceExit
KillPlace ==
  CASE pc \in { "loop", "next" } -> "between"
    [] pc = "rename" -> "rename"
    [] pc \in { "trace", "tracescan", "tracewrite", "tracedel" } -> "trace"
    [] OTHER -> "step"

\* the process is killed where it stands and search is started again: the
\* files stay as they are, buffered records and all memory are lost
KillRestart ==
  /\ Running
  /\ restarts < MaxRestarts
  /\ restarts' = restarts + 1
  /\ killedAt' = killedAt \cup { KillPlace }
  /\ pc' = "start" /\ exitCode' = EXIT_OK
  /\ FreshMemory
  /\ atStart' = [open |-> open, closed |-> closed]
  /\ UNCHANGED << calls, workerVars, componentVars, build, diskVars, auxFiles, noQueue, maxFrameGroups, command, path, emitted >>

\* somebody creates stop.txt, at any moment before search has returned
StopRequest ==
  /\ pc # "done"
  /\ ~stopFile
  /\ stopFile' = TRUE
  /\ UNCHANGED << calls, workerVars, componentVars, build, diskVars, pc, exitCode, searchVars, traceVars, restarts,
                  killedAt, merging, commandVars, path, emitted >>

\* search is run again after the process ended
Rerun ==
  /\ pc = "done"
  /\ restarts < MaxRestarts
  /\ restarts' = restarts + 1
  /\ pc' = "start" /\ exitCode' = EXIT_OK
  /\ FreshMemory
  /\ atStart' = [open |-> open, closed |-> closed]
  /\ UNCHANGED << calls, workerVars, componentVars, build, diskVars, auxFiles, noQueue, maxFrameGroups, command, killedAt, path, emitted >>

SearchStep ==
  \/ Start \/ StartResumeTrace
  \/ NotFound \/ SkipGroup \/ CloseQueue
  \/ SortChunks \/ MergeChunks \/ RenameMerging \/ DeleteChunks \/ ClearCache
  \/ FilterBegin \/ FilterBeginAll0 \/ FilterBeginAll
  \/ ProcessRecord \/ FilterEnd
  \/ ExitFound \/ DeleteOpen \/ RenameClosing \/ DeleteAll \/ RenameAll
  \/ Stop \/ NextGroup
  \/ TraceSave \/ TraceScan \/ TraceWrite \/ TraceDelete

Next == SearchStep \/ KillRestart \/ StopRequest \/ Rerun

Spec == Init /\ [][Next]_vars

(***************************************************************************)
(* A search of SampleMaze in an empty directory that nobody interrupts     *)
(***************************************************************************)
InitMaze == Fresh(MazeBuilds) /\ NoWorkers /\ Unused

NextMaze ==
  \/ Start \/ CloseQueue
  \/ SortChunks \/ MergeChunks \/ RenameMerging \/ DeleteChunks \/ ClearCache
  \/ FilterBegin \/ ProcessRecord \/ FilterEnd
  \/ ExitFound \/ DeleteOpen \/ RenameClosing \/ NextGroup
  \/ TraceSave \/ TraceScan \/ TraceWrite \/ TraceDelete

SpecMaze == InitMaze /\ [][NextMaze]_vars

(***************************************************************************)
(* The cache alone: calls of addState on a fresh process                   *)
(***************************************************************************)
\* a build with FRAMES_PER_GROUP 16384 and MAX_FRAMES between 2^15 and 2^16
CacheBuilds == { Build("far", 16384, FALSE, 8, 2) }

\* the frames addState is called with: the ends of the frame range and the
\* frames next to 2^15
CacheFrames == { 0, 1, 32767, 32768, FAR_MAX_FRAMES - 1 }

\* addState(state, frame) is called
AddStateCall ==
  /\ build \in CacheBuilds
  /\ pc = "start"
  /\ Len(calls) < MaxCalls
  /\ \E s \in States(build), f \in CacheFrames :
       /\ calls' = Append(calls, << s, f >>)
       /\ \E m \in { addState(build, Memory, s, f) } :
            ram' = m.ram /\ queue' = m.queue /\ open' = m.open
  /\ UNCHANGED << workerVars, componentVars, build, merged, closing, closed, allnew, all, chunk, solution,
                  solutionTxt, pc, exitCode, ramUsed, firstFrameGroup, currentFrameGroup,
                  exitFound, exitFrame, exitState, todo, traceVars, restarts, killedAt,
                  auxFiles, commandVars, path, emitted >>

InitCache == Fresh(CacheBuilds) /\ NoWorkers /\ Unused

NextCache == AddStateCall

SpecCache == InitCache /\ [][NextCache]_vars

(***************************************************************************)
(* An uninterrupted search without frame groups, whose phases are looked   *)
(* at under every order in which the workers can handle the records        *)
(***************************************************************************)
OrderBuilds ==
  { Build("order", 1, FALSE, 2, 1),
    Build("order", 1, FALSE, 8, 2),
    Build("ring", 1, FALSE, 8, 2),
    Build("fan", 1, FALSE, 2, 1) }

InitOrder == Fresh(OrderBuilds) /\ NoWorkers /\ Unused

NextOrder ==
  \/ Start \/ NotFound \/ SkipGroup \/ CloseQueue
  \/ SortChunks \/ MergeChunks \/ RenameMerging \/ DeleteChunks \/ ClearCache
  \/ FilterBegin \/ ProcessRecord \/ FilterEnd
  \/ ExitFound \/ DeleteOpen \/ RenameClosing \/ NextGroup
  \/ TraceSave \/ TraceScan \/ TraceWrite \/ TraceDelete

SpecOrder == InitOrder /\ [][NextOrder]_vars

\* the orders in which w workers can hand queued records to the handler: a
\* worker takes the oldest record of the ring, and the records the workers hold
\* are handled in any order
RECURSIVE HandlingOrders(_, _)
HandlingOrders(recs, w) ==
  IF recs = << >> THEN { << >> }
  ELSE UNION { { << recs[k] >> \o o :
                   o \in HandlingOrders(SubSeq(recs, 1, k - 1) \o
                                        SubSeq(recs, k + 1, Len(recs)), w) } :
               k \in 1 .. Min(w, Len(recs)) }

\* the memory after processState has handled the records in the given order
RECURSIVE ProcessAll(_, _)
ProcessAll(m, recs) ==
  IF recs = << >> THEN m
  ELSE IF isFinish(build, decompress(Head(recs)[1])) THEN ProcessAll(m, Tail(recs))
  ELSE CHOOSE r \in { ProcessAll(m1, Tail(recs)) :
                        m1 \in { processState(m, Head(recs)) } } : TRUE

(***************************************************************************)
(* One group step on given files: sortAndMerge of an open file, then       *)
(* filterStream or mergeTwoStreams against given closed and all files      *)
(***************************************************************************)
\* states without children, so that the handler writes nothing
StreamBuilds ==
  { Build("leaves", 2, FALSE, 1, 1),
    Build("leaves", 2, FALSE, 8, 2),
    Build("leaves", 2, TRUE, 2, 1) }

\* the records of the open files: every payload with subframe 0, and payload 1
\* with subframe 1 too
StreamRecords ==
  { << p, 0 >> : p \in States(Build("leaves", 2, FALSE, 8, 2)) } \cup { << 1, 1 >> }

\* the open files: records in any order, payloads repeated or not
SourceFiles == UNION { [1 .. n -> StreamRecords] : n \in 1 .. MaxLen }

\* the payloads of ps in increasing order, each with subframe u
RECURSIVE Ascending(_, _)
Ascending(ps, u) ==
  IF ps = { } THEN << >>
  ELSE LET p == CHOOSE q \in ps : \A r \in ps : q <= r
       IN  << << p, u >> >> \o Ascending(ps \ { p }, u)

\* closed and all files: sorted, no payload twice; the empty file is one
SortedFiles ==
  { Ascending(ps, 0) : ps \in SUBSET States(Build("leaves", 2, FALSE, 8, 2)) }
    \cup { Ascending({ 1, 3 }, 1) }

InitStreams ==
  /\ build \in StreamBuilds
  /\ \E src \in SourceFiles : open = [NoFiles EXCEPT ![2] = src]
  /\ merged = NoFiles /\ closing = NoFiles /\ allnew = NoFiles
  /\ \E c1 \in { NoFile, << >>, << << 2, 0 >> >> } :
       IF build.useAll
       THEN /\ closed = [NoFiles EXCEPT ![1] = c1]
            \* closed-1 was filtered against all-0 when it was written
            /\ \E a \in 0 .. 1, f \in SortedFiles :
                 /\ all = [NoFiles EXCEPT ![a] = f]
                 /\ (a = 0 /\ c1 # NoFile) =>
                      \A i \in DOMAIN c1, j \in DOMAIN f : c1[i][1] # f[j][1]
       ELSE /\ \E c0 \in SortedFiles \cup { NoFile } :
                 closed = [NoFiles EXCEPT ![0] = c0, ![1] = c1]
            /\ all = NoFiles
  /\ chunk = [g \in Groups(build) |-> << >>]
  /\ solution = NoSolution /\ solutionTxt = NoSolution
  /\ merging = NoFiles /\ stopFile = FALSE
  /\ noQueue = [g \in Groups(build) |-> FALSE]
  /\ maxFrameGroups = MAX_FRAME_GROUPS(build)
  /\ atStart = [open |-> NoFiles, closed |-> NoFiles]
  /\ command = "search"
  /\ pc = "sort" /\ exitCode = EXIT_OK
  /\ queue = [g \in Groups(build) |-> NoQueue]
  /\ ram = [c \in 1 .. RAM_SIZE(build) |-> 0]
  /\ ramUsed = 0
  /\ firstFrameGroup = 0 /\ currentFrameGroup = 2
  /\ exitFound = FALSE /\ exitFrame = 0 /\ exitState = 0
  /\ todo = << >>
  /\ exitSearchState = 0 /\ exitSearchStateFrame = 0 /\ exitSearchFrameGroup = 0
  /\ steps = << >>
  /\ restarts = 0
  /\ killedAt = { }
  /\ path = << >>
  /\ emitted = [g \in Groups(build) |-> << >>]
  /\ calls = << >>
  /\ NoWorkers /\ Unused

NextStreams ==
  \/ SortChunks \/ MergeChunks \/ RenameMerging \/ DeleteChunks \/ ClearCache
  \/ FilterBegin \/ FilterBeginAll \/ ProcessRecord \/ FilterEnd

SpecStreams == InitStreams /\ [][NextStreams]_vars

(***************************************************************************)
(* The worker pool (MULTITHREADING): the driver feeds the ring, the        *)
(* workers hand every record to the handler of the phase                   *)
(***************************************************************************)
WORKERS == Cardinality(DOMAIN thread) - 1

\* where CONDITION_WAIT(condition, lock) returns to: the thread takes the mutex
\* again and tests the condition of its loop
Woken(condition) ==
  CASE condition = "write" -> "worker"
    [] condition = "read" -> "feed"
    [] condition = "exit" -> "woken_exit"

\* CONDITION_NOTIFY(condition, lock): every thread that waits on the
\* condition is woken and goes for the mutex again
Notify(th, condition) ==
  [i \in DOMAIN th |-> IF th[i] = "wait_" \o condition THEN Woken(condition) ELSE th[i]]

\* the place a thread is at once it holds processQueueMutex
Locked(i) ==
  CASE thread[i] = "feed" ->
         IF feed = << >> THEN "flushProcessingQueue" ELSE "queueState"
    [] thread[i] = "woken_exit" -> "flush_wait"
    [] thread[i] = "worker" -> "dequeueState"
    [] thread[i] = "return" -> "exit"
    [] OTHER -> "none"

\* startWorkers<HANDLER>(): the driver begins a phase with the records of feed
StartWorkers ==
  /\ thread[0] = "idle"
  /\ phase < MaxPhases
  /\ phase' = phase + 1
  /\ runningWorkers' = WORKERS
  /\ thread' = [i \in DOMAIN thread |-> IF i = 0 THEN "feed" ELSE "worker"]
  /\ \E n \in 0 .. MaxFeed :
       feed' = [k \in 1 .. n |-> processQueueHead + k]
  /\ queued' = << >> /\ handled' = EmptyBag
  /\ UNCHANGED << calls, componentVars, processQueue, processQueueHead, processQueueTail, processQueueMutex,
                  stopWorkers, held, build, diskVars, pc, exitCode,
                  searchVars, traceVars, restarts, killedAt, auxFiles, commandVars, path,
                  emitted >>

\* SCOPED_LOCK lock(processQueueMutex)
Lock ==
  /\ processQueueMutex = Nobody
  /\ \E i \in DOMAIN thread :
       /\ Locked(i) # "none"
       /\ processQueueMutex' = i
       /\ thread' = [thread EXCEPT ![i] = Locked(i)]
  /\ UNCHANGED << calls, componentVars, processQueue, processQueueHead, processQueueTail, runningWorkers,
                  stopWorkers, held, feed, phase, queued, handled, build, diskVars, pc,
                  exitCode, searchVars, traceVars, restarts, killedAt, auxFiles, commandVars,
                  path, emitted >>

\* the trace leaves its loop when a worker has found the parent
Break ==
  /\ thread[0] = "feed"
  /\ feed # << >>
  /\ feed' = << >>
  /\ UNCHANGED << calls, componentVars, processQueue, processQueueHead, processQueueTail, processQueueMutex,
                  runningWorkers, stopWorkers, thread, held, phase, queued, handled, build,
                  diskVars, pc, exitCode, searchVars, traceVars, restarts, killedAt, auxFiles,
                  commandVars, path, emitted >>

\* queueState that does not wait for a free slot
QueueStateNoWait ==
  /\ thread[0] = "queueState"
  /\ processQueueMutex' = Nobody
  /\ processQueue' = [processQueue EXCEPT
                        ![processQueueHead % PROCESS_QUEUE_SIZE] = Head(feed)]
  /\ processQueueHead' = processQueueHead + 1
  /\ feed' = Tail(feed)
  /\ queued' = Append(queued, Head(feed))
  /\ thread' = Notify([thread EXCEPT ![0] = "feed"], "write")
  /\ UNCHANGED << calls, componentVars, processQueueTail, runningWorkers, stopWorkers, held, phase, handled,
                  build, diskVars, pc, exitCode, searchVars, traceVars, restarts, killedAt,
                  auxFiles, commandVars, path, emitted >>

\* queueState(state), with the mutex held
QueueState ==
  /\ thread[0] = "queueState"
  /\ processQueueMutex' = Nobody
  /\ IF processQueueHead = processQueueTail + PROCESS_QUEUE_SIZE
     THEN /\ thread' = [thread EXCEPT ![0] = "wait_read"]
          /\ UNCHANGED << processQueue, processQueueHead, feed, queued >>
     ELSE /\ processQueue' = [processQueue EXCEPT
                                ![processQueueHead % PROCESS_QUEUE_SIZE] = Head(feed)]
          /\ processQueueHead' = processQueueHead + 1
          /\ feed' = Tail(feed)
          /\ queued' = Append(queued, Head(feed))
          /\ thread' = Notify([thread EXCEPT ![0] = "feed"], "write")
  /\ UNCHANGED << calls, componentVars, processQueueTail, runningWorkers, stopWorkers, held, phase, handled,
                  build, diskVars, pc, exitCode, searchVars, traceVars, restarts, killedAt,
                  auxFiles, commandVars, path, emitted >>

\* dequeueState that looks at stopWorkers before it looks at the ring
DequeueStateStopFirst ==
  /\ \E i \in DOMAIN thread \ { 0 } :
       /\ thread[i] = "dequeueState"
       /\ IF stopWorkers \/ processQueueHead = processQueueTail
          THEN /\ thread' = [thread EXCEPT ![i] = IF stopWorkers THEN "return"
                                                  ELSE "wait_write"]
               /\ UNCHANGED << processQueueTail, held >>
          ELSE /\ held' = [held EXCEPT ![i] =
                             processQueue[processQueueTail % PROCESS_QUEUE_SIZE]]
               /\ processQueueTail' = processQueueTail + 1
               /\ thread' = Notify([thread EXCEPT ![i] = "handler"], "read")
  /\ processQueueMutex' = Nobody
  /\ UNCHANGED << calls, componentVars, processQueue, processQueueHead, runningWorkers, stopWorkers, feed,
                  phase, queued, handled, build, diskVars, pc, exitCode, searchVars,
                  traceVars, restarts, killedAt, auxFiles, commandVars, path, emitted >>

\* dequeueState(&cs), with the mutex held
DequeueState ==
  /\ \E i \in DOMAIN thread \ { 0 } :
       /\ thread[i] = "dequeueState"
       /\ IF processQueueHead = processQueueTail
          THEN /\ thread' = [thread EXCEPT ![i] = IF stopWorkers THEN "return"
                                                  ELSE "wait_write"]
               /\ UNCHANGED << processQueueTail, held >>
          ELSE /\ held' = [held EXCEPT ![i] =
                             processQueue[processQueueTail % PROCESS_QUEUE_SIZE]]
               /\ processQueueTail' = processQueueTail + 1
               /\ thread' = Notify([thread EXCEPT ![i] = "handler"], "read")
  /\ processQueueMutex' = Nobody
  /\ UNCHANGED << calls, componentVars, processQueue, processQueueHead, runningWorkers, stopWorkers, feed,
                  phase, queued, handled, build, diskVars, pc, exitCode, searchVars,
                  traceVars, restarts, killedAt, auxFiles, commandVars, path, emitted >>

\* STATE_HANDLER(&cs); queued and handled are the records of the phase, and cs
\* is dead once the handler has returned
Handler ==
  /\ \E i \in DOMAIN thread \ { 0 } :
       /\ thread[i] = "handler"
       /\ handled' = handled (+) SetToBag({ << i, held[i] >> })
       /\ held' = [held EXCEPT ![i] = 0]
       /\ thread' = [thread EXCEPT ![i] = "worker"]
  /\ UNCHANGED << calls, componentVars, processQueue, processQueueHead, processQueueTail, processQueueMutex,
                  runningWorkers, stopWorkers, feed, phase, queued, build, diskVars,
                  pc, exitCode, searchVars, traceVars, restarts, killedAt, auxFiles,
                  commandVars, path, emitted >>

\* a worker that leaves without CONDITION_NOTIFY(processQueueExitCondition)
WorkerExitSilent ==
  /\ \E i \in DOMAIN thread \ { 0 } :
       /\ thread[i] = "exit"
       /\ thread' = [thread EXCEPT ![i] = "idle"]
  /\ runningWorkers' = runningWorkers - 1
  /\ processQueueMutex' = Nobody
  /\ UNCHANGED << calls, componentVars, processQueue, processQueueHead, processQueueTail, stopWorkers, held,
                  feed, phase, queued, handled, build, diskVars, pc, exitCode, searchVars,
                  traceVars, restarts, killedAt, auxFiles, commandVars, path, emitted >>

\* worker(): dequeueState has returned false
WorkerExit ==
  /\ \E i \in DOMAIN thread \ { 0 } :
       /\ thread[i] = "exit"
       /\ thread' = Notify([thread EXCEPT ![i] = "idle"], "exit")
  /\ runningWorkers' = runningWorkers - 1
  /\ processQueueMutex' = Nobody
  /\ UNCHANGED << calls, componentVars, processQueue, processQueueHead, processQueueTail, stopWorkers, held,
                  feed, phase, queued, handled, build, diskVars, pc, exitCode, searchVars,
                  traceVars, restarts, killedAt, auxFiles, commandVars, path, emitted >>

\* flushProcessingQueue(), from the lock to the loop
Flush ==
  /\ thread[0] = "flushProcessingQueue"
  /\ stopWorkers' = TRUE
  /\ thread' = Notify([thread EXCEPT ![0] = "flush_wait"], "write")
  /\ UNCHANGED << calls, componentVars, processQueue, processQueueHead, processQueueTail, processQueueMutex,
                  runningWorkers, held, feed, phase, queued, handled, build, diskVars, pc,
                  exitCode, searchVars, traceVars, restarts, killedAt, auxFiles, commandVars,
                  path, emitted >>

\* flushProcessingQueue that returns without waiting for the workers
FlushNoWait ==
  /\ thread[0] = "flush_wait"
  /\ processQueueMutex' = Nobody
  /\ thread' = [thread EXCEPT ![0] = "idle"] /\ stopWorkers' = FALSE
  /\ UNCHANGED << calls, componentVars, processQueue, processQueueHead, processQueueTail, runningWorkers,
                  held, feed, phase, queued, handled, build, diskVars, pc, exitCode,
                  searchVars, traceVars, restarts, killedAt, auxFiles, commandVars, path,
                  emitted >>

\* flushProcessingQueue(): the loop on runningWorkers, and the return
FlushWait ==
  /\ thread[0] = "flush_wait"
  /\ processQueueMutex' = Nobody
  /\ IF runningWorkers # 0
     THEN thread' = [thread EXCEPT ![0] = "wait_exit"] /\ UNCHANGED stopWorkers
     ELSE thread' = [thread EXCEPT ![0] = "idle"] /\ stopWorkers' = FALSE
  /\ UNCHANGED << calls, componentVars, processQueue, processQueueHead, processQueueTail, runningWorkers,
                  held, feed, phase, queued, handled, build, diskVars, pc, exitCode,
                  searchVars, traceVars, restarts, killedAt, auxFiles, commandVars, path,
                  emitted >>

WorkerBuilds == { Build("ring", 1, FALSE, 8, 2) }

InitWorkers == Fresh(WorkerBuilds) /\ Unused /\ \E w \in 1 .. MaxWorkers : Pool(w)

NextWorkers ==
  \/ StartWorkers \/ Lock \/ Break \/ QueueState \/ DequeueState \/ Handler
  \/ WorkerExit \/ Flush \/ FlushWait

SpecWorkers == InitWorkers /\ [][NextWorkers]_vars

\* the scheduler runs some thread whenever one can run
FairWorkers == SpecWorkers /\ WF_vars(NextWorkers)

(***************************************************************************)
(* The maintenance commands: sort-open, filter-open, regenerate-open       *)
(***************************************************************************)
\* how many maintenance commands are run on a directory
MaxCommands == 2

\* builds whose directories the maintenance commands are run on
ToolBuilds ==
  { Build("ring", 1, FALSE, 8, 2),
    Build("twostart", 1, FALSE, 8, 2),
    Build("revisit", 1, FALSE, 8, 2),
    Build("grouped", 2, FALSE, 8, 2),
    Build("fan", 1, FALSE, 2, 1),
    Build("fan", 1, TRUE, 2, 1) }

\* parseFrameRange: no argument gives all groups, one argument a single
\* group, two arguments the groups from the first up to the second
Ranges(b) ==
  { r \in (0 .. MAX_FRAME_GROUPS(b)) \X (0 .. MAX_FRAME_GROUPS(b)) : r[1] < r[2] }

\* the globals of a process started for a maintenance command: static
\* storage is zeroed, the memory arena is allocated
CommandMemory(first, current) ==
  /\ queue' = [g \in Groups(build) |-> NoQueue]
  /\ ram' \in ArenaImages(build)
  /\ ramUsed' = 0
  /\ firstFrameGroup' = first
  /\ currentFrameGroup' = current
  /\ exitFound' = FALSE
  /\ exitFrame' = 0
  /\ exitState' = 0
  /\ todo' = << >>
  /\ exitSearchState' = 0
  /\ exitSearchStateFrame' = 0
  /\ exitSearchFrameGroup' = 0
  /\ steps' = << >>
  /\ restarts' = restarts + 1
  /\ atStart' = [open |-> open, closed |-> closed]

\* sort-open [range]: the range is parsed and sortOpen() begins with the
\* last group of the range
SortOpenStart ==
  /\ pc = "done"
  /\ restarts < MaxCommands
  /\ \E r \in Ranges(build) :
       /\ CommandMemory(r[1], r[2] - 1)
       /\ maxFrameGroups' = r[2]
  /\ command' = "sort-open"
  /\ noQueue' = [g \in Groups(build) |-> FALSE]
  /\ pc' = "sortopen"
  /\ exitCode' = EXIT_OK
  /\ UNCHANGED << calls, workerVars, componentVars, build, diskVars, auxFiles, killedAt, path, emitted >>

\* sortOpen(): one pass of the loop, for group currentFrameGroup
SortOpenGroup ==
  /\ pc = "sortopen"
  /\ currentFrameGroup >= firstFrameGroup
  /\ LET g == currentFrameGroup
         pieces == ReadChunks(open[g], Min(Len(open[g]), BUFFER_SIZE(build)))
         chunks == [i \in 1 .. Len(pieces) |-> SortedChunk(pieces[i])]
     IN  IF open[g] = NoFile \/ (merged[g] = NoFile /\ open[g] = << >>)
         THEN /\ currentFrameGroup' = g - 1
              /\ UNCHANGED << open, chunk, ram, ramUsed, stopFile, pc, exitCode >>
         ELSE IF merged[g] # NoFile
         THEN \* "Merged file present"
              /\ Fail
              /\ UNCHANGED << open, chunk, ram, ramUsed, stopFile, currentFrameGroup >>
         ELSE IF chunk[g] # << >>
         THEN \* chunk-g-0 is in the way of the first chunk
              /\ Fail
              /\ ram' = BufferAfter(ram, << pieces[1] >>)
              /\ ramUsed' = Len(pieces[1])
              /\ UNCHANGED << open, chunk, stopFile, currentFrameGroup >>
         ELSE IF Len(chunks) > 1 /\ merging[g] # NoFile
         THEN \* merging-g is in the way of the merge
              /\ Fail
              /\ chunk' = [chunk EXCEPT ![g] = chunks]
              /\ ram' = BufferAfter(ram, pieces)
              /\ ramUsed' = Len(pieces[1])
              /\ UNCHANGED << open, stopFile, currentFrameGroup >>
         ELSE /\ open' = [open EXCEPT ![g] = IF Len(chunks) > 1
                                               THEN mergeStreams(chunks)
                                               ELSE chunks[1]]
              /\ ram' = BufferAfter(ram, pieces)
              /\ ramUsed' = Len(pieces[1])
              /\ UNCHANGED chunk
              /\ IF stopFile
                 THEN /\ stopFile' = FALSE
                      /\ pc' = "done"
                      /\ exitCode' = EXIT_STOP
                      /\ UNCHANGED currentFrameGroup
                 ELSE /\ currentFrameGroup' = g - 1
                      /\ UNCHANGED << stopFile, pc, exitCode >>
  /\ UNCHANGED << calls, workerVars, componentVars, build, merged, closing, closed, allnew, all, solution, solutionTxt,
                  merging, queue, firstFrameGroup, exitFound, exitFrame, exitState, todo,
                  traceVars, restarts, killedAt, commandVars, path, emitted >>

\* sortOpen(): the loop has gone through the range
SortOpenEnd ==
  /\ pc = "sortopen"
  /\ currentFrameGroup < firstFrameGroup
  /\ pc' = "done"
  /\ exitCode' = EXIT_OK
  /\ UNCHANGED << calls, workerVars, componentVars, build, diskVars, searchVars, traceVars, restarts, killedAt, auxFiles,
                  commandVars, path, emitted >>

\* somebody deletes an open file between the search and the maintenance
LoseOpen ==
  /\ pc = "done"
  /\ restarts = 0
  /\ \E g \in Groups(build) :
       /\ open[g] # NoFile
       /\ open' = [open EXCEPT ![g] = NoFile]
  /\ UNCHANGED << calls, workerVars, componentVars, build, merged, closing, closed, allnew, all, chunk, solution, solutionTxt,
                  pc, exitCode, searchVars, traceVars, restarts, killedAt, auxFiles,
                  commandVars, path, emitted >>

\* no closed node stream is opened
NoFilterOpenInputs == [i \in 1 .. MAX_FRAME_GROUPS(build) |-> << >>]

\* the closed node streams filterOpen() opens: with USE_ALL the first all-g
\* file ends the loop, otherwise every closed-g that exists
FilterOpenInputs ==
  LET alls == { g \in Groups(build) : build.useAll /\ all[g] # NoFile }
      firstAll == IF alls = { } THEN MAX_FRAME_GROUPS(build)
                  ELSE CHOOSE g \in alls : \A h \in alls : g <= h
  IN  [i \in 1 .. MAX_FRAME_GROUPS(build) |->
         IF i - 1 = firstAll THEN all[i - 1]
         ELSE IF i - 1 < firstAll /\ closed[i - 1] # NoFile THEN closed[i - 1]
         ELSE << >>]

\* the records of the open files as the heap of filterStreams yields them,
\* each with the group of the stream it comes from
OpenHeap ==
  InputHeap([i \in 1 .. MAX_FRAME_GROUPS(build) |->
               IF open[i - 1] = NoFile THEN << >>
               ELSE [k \in DOMAIN open[i - 1] |->
                       << open[i - 1][k][1], open[i - 1][k][2], i - 1 >>]])

\* filterStreams: the passes of the outer loop from a non-empty open heap on;
\* written holds, per group, the records handed to the rewrite stream so far
RECURSIVE filterStreams(_, _, _)
filterStreams(closedHeap, openHeap, written) ==
  LET o == Head(openHeap)
      \* the records the inner loop consumes: the head and its equals
      same == CHOOSE n \in 1 .. Len(openHeap) :
                /\ \A i \in 1 .. n : openHeap[i][1] = o[1]
                /\ n = Len(openHeap) \/ openHeap[n + 1][1] # o[1]
      frames == { GET_FRAME(build, openHeap[i][3], openHeap[i]) : i \in 1 .. same }
      lowestFrame == Min(MaxFrames(build), CHOOSE f \in frames : \A h \in frames : f <= h)
      rest == SubSeq(openHeap, same + 1, Len(openHeap))
      c == scanTo(closedHeap, o)
      known == c # << >> /\ Head(c)[1] = o[1]
  IN  IF rest # << >> /\ o[1] > Head(rest)[1]
      THEN [written |-> written, err |-> "Unsorted open node file"]
      ELSE LET w == IF known THEN written
                    ELSE [written EXCEPT ![lowestFrame \div K] =
                            Append(@, << o[1], lowestFrame % K >>)]
           IN  IF rest = << >> THEN [written |-> w, err |-> ""]
               ELSE filterStreams(IF known THEN Tail(c) ELSE c, rest, w)

(***************************************************************************)
(* BufferedRewriteStream: the file in bytes, the file pointer of the       *)
(* handle, the sector buffers of InputStream and OutputStream, the         *)
(* read-ahead and the write buffer.  filterStreams reads the head, moves   *)
(* the heap on (which reads the next record) and then writes the head or   *)
(* drops it; filterOpen truncates and deletes the stream afterwards.       *)
(***************************************************************************)
\* the k-th byte of a record; the bytes of a zero record are zero bytes
ZeroNode == << 0, 0 >>
Byte(rec, k) == IF rec = ZeroNode THEN << ZeroNode, 0 >> ELSE << rec, k >>

\* a byte of storage that was never assigned, and a record that is no record
Indeterminate == << << -1, -1 >>, 0 >>
Garbage == << -1, -1 >>

Bytes(nodes) ==
  [j \in 1 .. (Len(nodes) * NODE_SIZE) |->
     Byte(nodes[((j - 1) \div NODE_SIZE) + 1], ((j - 1) % NODE_SIZE) + 1)]

\* the records a run of bytes holds, a tail shorter than a record left out
Nodes(bytes) ==
  [i \in 1 .. (Len(bytes) \div NODE_SIZE) |->
     LET bs == SubSeq(bytes, (i - 1) * NODE_SIZE + 1, i * NODE_SIZE)
         rec == bs[1][1]
     IN  IF bs = [k \in 1 .. NODE_SIZE |-> Byte(rec, k)] THEN rec ELSE Garbage]

\* ReadFile(archive, ., n, &r, NULL): the bytes read at the file pointer
ReadFile(s, n) == SubSeq(s.file, s.ptr + 1, Min(s.ptr + n, Len(s.file)))

\* WriteFile(archive, data, ., &r, NULL) at the file pointer
WriteFile(s, data) ==
  LET gap == [j \in 1 .. (s.ptr - Len(s.file)) |-> Byte(ZeroNode, 1)]
  IN  [s EXCEPT !.file = SubSeq(s.file, 1, Min(s.ptr, Len(s.file))) \o gap \o data
                           \o SubSeq(s.file, s.ptr + Len(data) + 1, Len(s.file)),
                !.ptr = s.ptr + Len(data)]

\* SetEndOfFile(archive)
SetEndOfFile(s) ==
  [s EXCEPT !.file = SubSeq(s.file, 1, Min(s.ptr, Len(s.file)))
                       \o [j \in 1 .. (s.ptr - Len(s.file)) |-> Byte(ZeroNode, 1)]]

\* InputStream::seek(pos)
InputStreamSeek(s, pos) ==
  LET fpos == pos * NODE_SIZE
      sbp == pos % SECTOR_SIZE
      at == [s EXCEPT !.filePosition = fpos, !.sectorBufferPos = sbp,
                      !.ptr = fpos - (fpos % SECTOR_SIZE), !.endOfFileReached = FALSE]
      data == ReadFile(at, SECTOR_SIZE)
      r == Len(data)
  IN  IF sbp = 0 THEN at
      ELSE [at EXCEPT !.inBuf = data \o SubSeq(at.inBuf, r + 1, SECTOR_SIZE),
                      !.ptr = at.ptr + r,
                      !.endOfFileReached = r < sbp,
                      !.err = IF r = 0 THEN "Read error" ELSE at.err]

\* the end of InputStream::read at a short read: assert(bytes % sizeof(NODE)
\* == 0, "Unaligned EOF"), which only a DEBUG build tests
ShortRead(s, data) ==
  [s |-> [s EXCEPT !.err = IF s.debug /\ Len(data) % NODE_SIZE # 0
                           THEN "Unaligned EOF" ELSE s.err],
   data |-> data]

\* InputStream::read(p, n), total = n * sizeof(NODE): the loop over the chunks
\* from the bytes in data on; the stream afterwards and the bytes read
RECURSIVE InputStreamRead(_, _, _)
InputStreamRead(s, data, total) ==
  LET left == total - Len(data)
  IN  IF left <= 0 THEN [s |-> s, data |-> data]
      ELSE IF s.endOfFileReached
      THEN [s |-> [s EXCEPT !.err = "Read error, end of file"], data |-> data]
      ELSE IF s.sectorBufferPos # 0
      THEN LET piece == Min(left, SECTOR_SIZE - s.sectorBufferPos)
           IN  InputStreamRead(
                 [s EXCEPT !.sectorBufferPos = (s.sectorBufferPos + piece) % SECTOR_SIZE,
                           !.filePosition = s.filePosition + piece],
                 data \o SubSeq(s.inBuf, s.sectorBufferPos + 1, s.sectorBufferPos + piece),
                 total)
      ELSE IF left < SECTOR_SIZE
      THEN LET got == ReadFile(s, SECTOR_SIZE)
               r == Len(got)
               t == [s EXCEPT !.inBuf = got \o SubSeq(s.inBuf, r + 1, SECTOR_SIZE),
                              !.ptr = s.ptr + r,
                              !.endOfFileReached = r # SECTOR_SIZE]
           IN  IF r < left THEN ShortRead(t, data \o got)
               ELSE [s |-> [t EXCEPT !.sectorBufferPos = left,
                                     !.filePosition = t.filePosition + left],
                     data |-> data \o SubSeq(got, 1, left)]
      ELSE LET piece == left - (left % SECTOR_SIZE)
               got == ReadFile(s, piece)
               r == Len(got)
           IN  IF r < piece
               THEN ShortRead([s EXCEPT !.ptr = s.ptr + r, !.endOfFileReached = TRUE],
                              data \o got)
               ELSE InputStreamRead([s EXCEPT !.ptr = s.ptr + r,
                                              !.filePosition = s.filePosition + r],
                                    data \o got, total)

\* RewriteStream::read(p, n): the stream afterwards and the records read; the
\* assert on the positions is tested by a DEBUG build only
RewriteStreamRead(s, n) ==
  IF s.debug /\ s.readpos < s.writepos
  THEN [s |-> [s EXCEPT !.err = "Write position overwritten"], nodes |-> << >>]
  ELSE LET at == InputStreamSeek(s, s.readpos)
           r == InputStreamRead(at, << >>, n * NODE_SIZE)
           nodes == Nodes(r.data)
       IN  IF at.err # "" THEN [s |-> at, nodes |-> << >>]
           ELSE [s |-> [r.s EXCEPT !.readpos = s.readpos + Len(nodes)], nodes |-> nodes]

\* OutputStream::write(p, n): the loop over the chunks of the bytes in data
RECURSIVE OutputStreamWrite(_, _)
OutputStreamWrite(s, data) ==
  IF data = << >> THEN s
  ELSE IF s.sectorBufferUse # 0
  THEN LET piece == Min(Len(data), SECTOR_SIZE - s.sectorBufferUse)
           buf == SubSeq(s.outBuf, 1, s.sectorBufferUse) \o SubSeq(data, 1, piece)
                    \o SubSeq(s.outBuf, s.sectorBufferUse + piece + 1, SECTOR_SIZE)
           t == [s EXCEPT !.outBuf = buf, !.sectorBufferUse = s.sectorBufferUse + piece]
           u == IF t.sectorBufferUse = SECTOR_SIZE
                THEN [WriteFile(t, buf) EXCEPT !.sectorBufferUse = 0,
                                               !.sectorBufferFlushed = 0]
                ELSE t
       IN  OutputStreamWrite(u, SubSeq(data, piece + 1, Len(data)))
  ELSE IF Len(data) < SECTOR_SIZE
  THEN [s EXCEPT !.outBuf = data \o [j \in 1 .. (SECTOR_SIZE - Len(data)) |->
                                        Byte(ZeroNode, 1)],
                 !.sectorBufferUse = Len(data)]
  ELSE LET piece == Len(data) - (Len(data) % SECTOR_SIZE)
       IN  OutputStreamWrite(WriteFile(s, SubSeq(data, 1, piece)),
                             SubSeq(data, piece + 1, Len(data)))

\* RewriteStream::write(p, n)
RewriteStreamWrite(s, nodes) ==
  LET at == InputStreamSeek(s, s.writepos)
  IN  IF at.err # "" THEN at
      ELSE [OutputStreamWrite(at, Bytes(nodes)) EXCEPT !.writepos = s.writepos + Len(nodes)]

\* RewriteStream::truncate()
RewriteStreamTruncate(s) ==
  LET at == InputStreamSeek(s, s.writepos)
  IN  IF at.err # "" THEN at ELSE SetEndOfFile(at)

\* ReadBuffer::fillBuffer(); position() is that of InputStream
fillBuffer(s) ==
  LET left == (Len(s.file) \div NODE_SIZE) - (s.filePosition \div NODE_SIZE)
      r == RewriteStreamRead(s, IF left < 0 \/ left > s.size THEN s.size ELSE left)
  IN  [r.s EXCEPT !.rbuf = r.nodes, !.rpos = 0]

\* ReadBuffer::read(): the stream afterwards and the record, NULL at the end
ReadBufferRead(s) ==
  LET t == IF s.rpos = Len(s.rbuf) THEN fillBuffer(s) ELSE s
  IN  IF t.err # "" \/ t.rpos = Len(t.rbuf) THEN [s |-> t, node |-> NULL]
      ELSE [s |-> [t EXCEPT !.rpos = t.rpos + 1], node |-> t.rbuf[t.rpos + 1]]

\* WriteBuffer::flushBuffer()
flushBuffer(s) ==
  IF s.wbuf = << >> THEN s
  ELSE [RewriteStreamWrite(s, s.wbuf) EXCEPT !.wbuf = << >>]

\* WriteBuffer::write(p)
WriteBufferAdd(s, node) ==
  LET t == [s EXCEPT !.wbuf = Append(s.wbuf, node)]
  IN  IF Len(t.wbuf) = t.size THEN flushBuffer(t) ELSE t

\* OutputStream::flush(false), from ~OutputStream: the sector buffer is
\* written out whole, and the file is then opened by filenameOpened to cut
\* it to its length; RewriteStream::open never assigns filenameOpened, so
\* what it names is open: no file that can be opened, some other file, or
\* the file of the stream
OutputStreamClose(s, named) ==
  IF ~s.archive THEN s
  ELSE IF s.sectorBufferFlushed = s.sectorBufferUse THEN [s EXCEPT !.archive = FALSE]
  ELSE LET w == [WriteFile(s, s.outBuf) EXCEPT !.archive = FALSE]
       IN  CASE named = "none" ->
                  [w EXCEPT !.err = "File creation failure upon reopening"]
             [] named = "other" ->
                  [w EXCEPT !.sectorBufferFlushed = w.sectorBufferUse]
             [] OTHER ->
                  [w EXCEPT !.file = SubSeq(w.file, 1, Len(w.file)
                                              - (SECTOR_SIZE - w.sectorBufferUse)),
                            !.sectorBufferFlushed = w.sectorBufferUse]

\* delete[] open: ~WriteBuffer flushes the buffer, ~OutputStream closes
RewriteStreamDelete(s, named) ==
  LET t == flushBuffer(s)
  IN  IF t.err # "" THEN t ELSE OutputStreamClose(t, named)

\* BufferedRewriteStream::open on a file of the given records
RewriteStreamOpen(nodes, size, debug) ==
  [file |-> Bytes(nodes), ptr |-> 0, archive |-> TRUE, err |-> "", debug |-> debug,
   readpos |-> 0, writepos |-> 0,
   filePosition |-> 0, sectorBufferPos |-> 0, endOfFileReached |-> FALSE,
   inBuf |-> [j \in 1 .. SECTOR_SIZE |-> Indeterminate],
   outBuf |-> [j \in 1 .. SECTOR_SIZE |-> Indeterminate],
   sectorBufferUse |-> 0, sectorBufferFlushed |-> 0,
   size |-> size, rbuf |-> << >>, rpos |-> 0, wbuf |-> << >>]

\* filterStreams as one stream sees it, from its head on: the heap reads the
\* next record before the head is written or dropped; written holds the
\* records filterStreams still has to write to this stream
RECURSIVE RewriteRun(_, _, _)
RewriteRun(s, head, written) ==
  IF s.err # "" \/ head = NULL THEN s
  ELSE LET keep == written # << >> /\ Head(written)[1] = head[1]
       IN  CHOOSE x \in UNION {
             { RewriteRun(s2, r.node, IF keep THEN Tail(written) ELSE written) :
                 s2 \in { IF keep /\ r.s.err = ""
                          THEN WriteBufferAdd(r.s, Head(written)) ELSE r.s } } :
               r \in { ReadBufferRead(s) } } : TRUE

\* filterOpen on one open file: the stream is opened, filterStreams runs,
\* truncate(), delete[]; the file afterwards, and the error if there was one
RewrittenFile(nodes, written, named) ==
  CHOOSE x \in UNION { UNION { UNION {
      { [file |-> Nodes(s3.file), err |-> s3.err] :
          s3 \in { IF s2.err # "" THEN s2 ELSE RewriteStreamDelete(s2, named) } } :
        s2 \in { IF s1.err # "" THEN s1 ELSE RewriteStreamTruncate(s1) } } :
      s1 \in { RewriteRun(h.s, h.node, written) } } :
    h \in { ReadBufferRead(RewriteStreamOpen(nodes, STANDARD_BUFFER_SIZE, FALSE)) } } : TRUE

\* what a rewrite stream leaves of file f when the process ends in error():
\* the full buffers of written records, then the rest of the file as it was
Overwritten(f, written) ==
  LET flushed == (Len(written) \div STANDARD_BUFFER_SIZE) * STANDARD_BUFFER_SIZE
  IN  SubSeq(written, 1, flushed) \o SubSeq(f, flushed + 1, Len(f))

\* filter-open: filterOpen() from start to end
FilterOpen ==
  /\ pc = "done"
  /\ restarts < MaxCommands
  /\ CommandMemory(0, 0)
  /\ maxFrameGroups' = MAX_FRAME_GROUPS(build)
  /\ command' = "filter-open"
  /\ noQueue' = [g \in Groups(build) |-> FALSE]
  /\ pc' = "done"
  /\ IF \E g \in Groups(build) : open[g] # NoFile /\ closed[g] # NoFile
     THEN \* "Open and closed node files present for the same frame"
          exitCode' = EXIT_ERROR /\ UNCHANGED open
     ELSE IF OpenHeap = << >>
     THEN \* the head of an empty heap is read through a null pointer
          exitCode' = EXIT_ERROR /\ UNCHANGED open
     ELSE \E r \in { filterStreams(InputHeap(FilterOpenInputs), OpenHeap,
                                   [g \in Groups(build) |-> << >>]) } :
            IF r.err # ""
            THEN /\ exitCode' = EXIT_ERROR
                 /\ open' = [g \in Groups(build) |->
                               IF open[g] = NoFile THEN NoFile
                               ELSE Overwritten(open[g], r.written[g])]
            ELSE \* every stream is run in bytes; filenameOpened, which
                 \* RewriteStream::open leaves unassigned, names no file,
                 \* another file or the file of the stream
                 \E named \in { "none", "other", "own" } :
                   \E f \in { [g \in Groups(build) |->
                                 IF open[g] = NoFile THEN [file |-> NoFile, err |-> ""]
                                 ELSE RewrittenFile(open[g], r.written[g], named)] } :
                     /\ exitCode' = IF \E g \in Groups(build) : f[g].err # ""
                                    THEN EXIT_ERROR ELSE EXIT_OK
                     /\ open' = [g \in Groups(build) |-> f[g].file]
  /\ UNCHANGED << calls, workerVars, componentVars, build, merged, closing, closed, allnew, all, chunk, solution, solutionTxt,
                  auxFiles, killedAt, path, emitted >>

\* regenerate-open [range]: the range is parsed; regenerateOpen() sets noQueue
\* for every group that has a closed or an open file and lowers maxFrameGroups
\* to the end of the last closed file
RegenerateStart ==
  /\ pc = "done"
  /\ restarts < MaxCommands
  /\ \E r \in Ranges(build) :
       /\ CommandMemory(r[1], r[1])
       /\ LET ends == { n \in 0 .. r[2] : n = 0 \/ closed[n - 1] # NoFile }
          IN  maxFrameGroups' = CHOOSE n \in ends : \A h \in ends : h <= n
  /\ command' = "regenerate-open"
  /\ noQueue' = [g \in Groups(build) |-> closed[g] # NoFile \/ open[g] # NoFile]
  /\ pc' = "regenerate"
  /\ exitCode' = EXIT_OK
  /\ UNCHANGED << calls, workerVars, componentVars, build, diskVars, auxFiles, killedAt, path, emitted >>

\* the loop over the records of closed-g: every record goes through
\* processState; st holds the memory and exitFound, exitFrame, exitState
RECURSIVE processFilteredStates(_, _)
processFilteredStates(st, recs) ==
  IF recs = << >> \/ st.m.err # "" THEN st
  ELSE LET rec == Head(recs)
           s == decompress(rec[1])
           frame == GET_FRAME(build, currentFrameGroup, rec)
       IN  IF isFinish(build, s)
           THEN processFilteredStates(
                  [st EXCEPT !.exit = IF st.exit[1] /\ st.exit[2] <= frame THEN @
                                      ELSE << TRUE, frame, s >>],
                  Tail(recs))
           ELSE CHOOSE r \in { processFilteredStates(st1, Tail(recs)) :
                                 st1 \in { [st EXCEPT !.m = processState(st.m, rec)] } } : TRUE

\* regenerateOpen(): one pass of the loop, for group currentFrameGroup
RegenerateGroup ==
  /\ pc = "regenerate"
  /\ currentFrameGroup < maxFrameGroups
  /\ IF closed[currentFrameGroup] = NoFile
     THEN /\ currentFrameGroup' = currentFrameGroup + 1
          /\ UNCHANGED << open, queue, ram, exitFound, exitFrame, exitState, stopFile,
                          pc, exitCode >>
     ELSE \E st \in { processFilteredStates(
                        [m |-> Memory, exit |-> << exitFound, exitFrame, exitState >>],
                        closed[currentFrameGroup]) } :
            /\ ram' = st.m.ram
            /\ exitFound' = st.exit[1] /\ exitFrame' = st.exit[2] /\ exitState' = st.exit[3]
            /\ IF st.m.err # ""
               THEN /\ Fail
                    /\ open' = st.m.open /\ queue' = st.m.queue
                    /\ UNCHANGED << currentFrameGroup, stopFile >>
               ELSE \* flushOpen(), then checkStop()
                    /\ open' = [g \in Groups(build) |->
                                  IF st.m.queue[g] = NoQueue THEN st.m.open[g]
                                  ELSE st.m.open[g] \o st.m.queue[g]]
                    /\ queue' = [g \in Groups(build) |->
                                   IF st.m.queue[g] = NoQueue THEN NoQueue ELSE << >>]
                    /\ IF stopFile
                       THEN /\ stopFile' = FALSE
                            /\ pc' = "done"
                            /\ exitCode' = EXIT_STOP
                            /\ UNCHANGED currentFrameGroup
                       ELSE /\ currentFrameGroup' = currentFrameGroup + 1
                            /\ UNCHANGED << stopFile, pc, exitCode >>
  /\ UNCHANGED << calls, workerVars, componentVars, build, merged, closing, closed, allnew, all, chunk, solution, solutionTxt,
                  merging, ramUsed, firstFrameGroup, todo, traceVars, restarts, killedAt,
                  commandVars, path, emitted >>

\* regenerateOpen(): the loop has gone through the range
RegenerateEnd ==
  /\ pc = "regenerate"
  /\ currentFrameGroup >= maxFrameGroups
  /\ pc' = "done"
  /\ exitCode' = EXIT_OK
  /\ UNCHANGED << calls, workerVars, componentVars, build, diskVars, searchVars, traceVars, restarts, killedAt, auxFiles,
                  commandVars, path, emitted >>

InitTools == Fresh(ToolBuilds) /\ NoWorkers /\ Unused

\* a search that nobody kills, then maintenance commands
NextTools ==
  \/ Start \/ NotFound \/ SkipGroup \/ CloseQueue \/ SortChunks \/ MergeChunks
  \/ RenameMerging \/ DeleteChunks \/ ClearCache \/ FilterBegin \/ FilterBeginAll0
  \/ FilterBeginAll \/ ProcessRecord \/ FilterEnd \/ ExitFound \/ DeleteOpen
  \/ RenameClosing \/ DeleteAll \/ RenameAll \/ Stop \/ NextGroup
  \/ TraceSave \/ TraceScan \/ TraceWrite \/ TraceDelete
  \/ StopRequest \/ LoseOpen
  \/ SortOpenStart \/ SortOpenGroup \/ SortOpenEnd
  \/ FilterOpen
  \/ RegenerateStart \/ RegenerateGroup \/ RegenerateEnd

SpecTools == InitTools /\ [][NextTools]_vars

(***************************************************************************)
(* An InputHeap on its own: built over given inputs, then read with        *)
(* getHead and next and scanned with scanTo in any order                   *)
(***************************************************************************)
HeapBuilds == { Build("leaves", 1, FALSE, 8, 2) }

\* the inputs: not open, empty, or payloads in increasing order
HeapFiles == { Ascending(ps, 0) : ps \in SUBSET (1 .. MaxPayload) } \cup { NoFile }

HeapTargets == { << p, 0 >> : p \in 1 .. (MaxPayload + 1) }

\* the bag of the elements of a sequence
BagOfSeq(s) ==
  [r \in { s[j] : j \in DOMAIN s } |-> Cardinality({ j \in DOMAIN s : s[j] = r })]

\* the records an input holds
Records(f) == IF f = NoFile THEN << >> ELSE f

\* the bag of records the heap has still to give: the states of its nodes and
\* what was not read from their inputs
Unread(ins, h) ==
  LET rest == [i \in DOMAIN ins |-> SubSeq(Records(ins[i]), h.pos[i] + 1, Len(Records(ins[i])))]
      recs == { h.heap[c].state : c \in 1 .. h.size }
                \cup UNION { { rest[i][j] : j \in DOMAIN rest[i] } : i \in DOMAIN ins }
  IN  [r \in recs |->
         Cardinality({ c \in 1 .. h.size : h.heap[c].state = r })
         + Cardinality({ ij \in (DOMAIN ins) \X (1 .. MaxPayload) :
                           ij[2] <= Len(rest[ij[1]]) /\ rest[ij[1]][ij[2]] = r })]

\* a number for each input file; equal files have equal numbers
RECURSIVE FileCode(_)
FileCode(f) ==
  IF f = NoFile THEN 0
  ELSE IF f = << >> THEN 1
  ELSE 2 ^ Head(f)[1] + FileCode(Tail(f))

\* the constructor sorts its nodes and the heap treats all inputs alike, so
\* of the arrays that differ in the order of the inputs only, one is taken
InitHeap ==
  /\ Fresh(HeapBuilds) /\ NoWorkers /\ NoRewrite /\ NoExpand
  /\ \E n \in 1 .. MaxInputs : heapInputs \in [1 .. n -> HeapFiles]
  /\ \A i \in 1 .. (Len(heapInputs) - 1) :
       FileCode(heapInputs[i]) <= FileCode(heapInputs[i + 1])
  /\ inputHeap \in InputHeapNew(heapInputs)
  /\ heapCall = [op |-> "new", result |-> TRUE]

\* next()
HeapNext ==
  /\ heapCall.op # "none"
  /\ LET r == InputHeapNext(heapInputs, inputHeap)
     IN  /\ inputHeap' = r.h
         /\ heapCall' = [op |-> "next", result |-> r.result]
  /\ UNCHANGED << calls, workerVars, build, diskVars, pc, exitCode, searchVars, traceVars,
                  restarts, killedAt, auxFiles, commandVars, path, emitted, heapInputs, rewriteVars,
                  expandVars >>

\* scanTo(target)
HeapScanTo ==
  /\ heapCall.op # "none"
  /\ \E target \in HeapTargets :
       LET r == InputHeapScanTo(heapInputs, inputHeap, target)
       IN  /\ inputHeap' = r.h
           /\ heapCall' = [op |-> "scanTo", result |-> r.result]
  /\ UNCHANGED << calls, workerVars, build, diskVars, pc, exitCode, searchVars, traceVars,
                  restarts, killedAt, auxFiles, commandVars, path, emitted, heapInputs, rewriteVars,
                  expandVars >>

NextHeap == HeapNext \/ HeapScanTo

\* the reading loop of mergeStreams: getHead, then getHead after every next
\* that returns true
RECURSIVE DrainNext(_, _)
DrainNext(ins, h) ==
  LET r == InputHeapNext(ins, h)
  IN  IF r.result THEN << getHead(r.h) >> \o DrainNext(ins, r.h) ELSE << >>

Drain(ins, h) ==
  IF getHead(h) = NULL THEN << >> ELSE << getHead(h) >> \o DrainNext(ins, h)

\* while (head < target) next(): the object afterwards
RECURSIVE NextWhile(_, _, _)
NextWhile(ins, h, target) ==
  IF h.size > 0 /\ getHead(h)[1] < target[1]
  THEN NextWhile(ins, InputHeapNext(ins, h).h, target)
  ELSE h

SpecHeap == InitHeap /\ [][NextHeap]_vars

(***************************************************************************)
(* A BufferedRewriteStream on its own, run through the calls filterOpen    *)
(* makes on it.                                                            *)
(***************************************************************************)
RewriteBuilds == { Build("leaves", 1, FALSE, 8, 2) }

\* the buffer sizes of the builds looked at: STANDARD_BUFFER_SIZE as defined
\* on the command line of the compiler, and a whole number of sectors, as the
\* default of 1 MB is
RewriteBufferSizes == { STANDARD_BUFFER_SIZE, SECTOR_SIZE }

\* open-g is opened for rewriting
InitRewrite ==
  /\ Fresh(RewriteBuilds) /\ NoWorkers /\ NoHeap /\ NoExpand
  /\ \E n \in 0 .. MaxRewrite, size \in RewriteBufferSizes, debug \in BOOLEAN :
       rw = RewriteStreamOpen([i \in 1 .. n |-> << i, 0 >>], size, debug)
  /\ rwCtl = [pc |-> "open", head |-> NULL, o |-> NULL, written |-> << >>, read |-> 0,
              nodes |-> Nodes(rw.file)]

\* the rest of the program is not run
RewriteOthers ==
  UNCHANGED << calls, workerVars, build, diskVars, pc, exitCode, searchVars, traceVars,
               restarts, killedAt, auxFiles, commandVars, path, emitted, heapVars,
               expandVars >>

\* what leaves the stream in an error ends the process
RewriteDone(s, pcOk) == IF s.err # "" THEN "error" ELSE pcOk

\* InputHeap::InputHeap: the first record is read
RewriteHead ==
  /\ rwCtl.pc = "open"
  /\ LET r == ReadBufferRead(rw)
     IN  /\ rw' = r.s
         /\ rwCtl' = [rwCtl EXCEPT !.pc = RewriteDone(r.s, "filter"), !.head = r.node,
                                   !.read = IF r.node = NULL THEN 0 ELSE 1]
  /\ RewriteOthers

\* filterStreams: o = *openHeap.getHead(); openHeap.next()
RewriteNext ==
  /\ rwCtl.pc = "filter" /\ rwCtl.o = NULL /\ rwCtl.head # NULL
  /\ LET r == ReadBufferRead(rw)
     IN  /\ rw' = r.s
         /\ rwCtl' = [rwCtl EXCEPT !.pc = RewriteDone(r.s, "filter"), !.o = rwCtl.head,
                                   !.head = r.node,
                                   !.read = IF r.node = NULL THEN @ ELSE @ + 1]
  /\ RewriteOthers

\* filterStreams: the state is in a closed file, nothing is written
RewriteSkip ==
  /\ rwCtl.pc = "filter" /\ rwCtl.o # NULL
  /\ rwCtl' = [rwCtl EXCEPT !.o = NULL]
  /\ rw' = rw
  /\ RewriteOthers

\* filterStreams: open[lowestFrame/FRAMES_PER_GROUP].write(&o, true)
RewriteWrite ==
  /\ rwCtl.pc = "filter" /\ rwCtl.o # NULL
  /\ rw' = WriteBufferAdd(rw, rwCtl.o)
  /\ rwCtl' = [rwCtl EXCEPT !.pc = RewriteDone(rw', "filter"), !.o = NULL,
                            !.written = Append(@, rwCtl.o)]
  /\ RewriteOthers

\* filterOpen: open[g].truncate()
RewriteTruncate ==
  /\ rwCtl.pc = "filter" /\ rwCtl.o = NULL /\ rwCtl.head = NULL
  /\ rw' = RewriteStreamTruncate(rw)
  /\ rwCtl' = [rwCtl EXCEPT !.pc = RewriteDone(rw', "truncated")]
  /\ RewriteOthers

\* filterOpen: delete[] open
RewriteClose ==
  /\ rwCtl.pc = "truncated"
  /\ \E named \in { "none", "other", "own" } :
       rw' = RewriteStreamDelete(rw, named)
  /\ rwCtl' = [rwCtl EXCEPT !.pc = RewriteDone(rw', "closed")]
  /\ RewriteOthers

NextRewrite ==
  \/ RewriteHead \/ RewriteNext \/ RewriteSkip \/ RewriteWrite
  \/ RewriteTruncate \/ RewriteClose

SpecRewrite == InitRewrite /\ [][NextRewrite]_vars

(***************************************************************************)
(* processState in the worker threads (MULTITHREADING), lock by lock: the  *)
(* uninterrupted search, whose filter hands the records of a group to the  *)
(* workers through the ring.  A worker is inside STATE_HANDLER while       *)
(* thread[i] = "handler"; local[i].at is the statement it stands before.   *)
(***************************************************************************)
\* THREADS of the build
THREADS == 3
\* the buckets per partition mutex, scaled down from 256
PARTITION_SPAN == 2

PARTITIONS(b) == CACHE_HASH_SIZE(b) \div PARTITION_SPAN

ExpandBuilds == { Build("crowd", 2, FALSE, 16, 2) }

Workers == DOMAIN thread \ { 0 }

\* the locals of a worker that is not inside processState
IdleLocal ==
  [at |-> "enter", kids |-> << >>, cs |-> 0, frame |-> 0, hash |-> 0, n |-> 0,
   miss |-> FALSE, ret |-> "", rec |-> << 0, 0 >>, fmt |-> 0, pos |-> 0]

\* static storage is zeroed: no mutex is held, no writer was created
InitExpand ==
  /\ Fresh(ExpandBuilds) /\ Pool(THREADS - 1) /\ NoHeap /\ NoRewrite
  /\ local = [i \in 1 .. (THREADS - 1) |-> IdleLocal]
  /\ cacheMutex = [p \in 0 .. (PARTITIONS(build) - 1) |-> Nobody]
  /\ queueMutex = [g \in Groups(build) |-> Nobody]
  /\ finishMutex = Nobody /\ tempMutex = Nobody
  /\ work = << >>
  /\ made = [g \in Groups(build) |-> 0]
  /\ appended = [g \in Groups(build) |-> << >>]
  /\ expanded = { }

\* what no step of a worker inside processState changes
ExpandFrame ==
  << build, merged, closing, closed, allnew, all, chunk, solution, solutionTxt, ramUsed,
     firstFrameGroup, currentFrameGroup, todo, traceVars, restarts, killedAt, auxFiles,
     commandVars, path, calls, heapVars, rewriteVars, processQueue, processQueueHead,
     processQueueTail, processQueueMutex, runningWorkers, stopWorkers, feed, phase,
     queued, work >>

At(i, place) == thread[i] = "handler" /\ local[i].at = place

\* worker i goes on to the statement named in fields.at, with these locals
Goto(i, fields) == local' = [local EXCEPT ![i] = fields @@ @]

\* STATE_HANDLER returns: the worker is back in its loop
Return(i) ==
  /\ handled' = handled (+) SetToBag({ << i, held[i] >> })
  /\ held' = [held EXCEPT ![i] = 0]
  /\ thread' = [thread EXCEPT ![i] = "worker"]
  /\ local' = [local EXCEPT ![i] = IdleLocal]

\* the worker stays inside the handler
Stay == UNCHANGED << handled, held, thread >>

\* filterStreams begins: startWorkers<&processState>(), and the records the
\* filter will hand over, numbered as they are queued
ExpandStart ==
  /\ pc = "process"
  /\ todo # << >>
  /\ thread[0] = "idle"
  /\ pc' = "workers"
  /\ phase' = phase + 1
  /\ runningWorkers' = WORKERS
  /\ thread' = [i \in DOMAIN thread |-> IF i = 0 THEN "feed" ELSE "worker"]
  /\ feed' = [k \in 1 .. Len(todo) |-> Len(work) + k]
  /\ work' = work \o [k \in 1 .. Len(todo) |->
                        [rec |-> todo[k], group |-> currentFrameGroup]]
  /\ queued' = << >> /\ handled' = EmptyBag
  /\ UNCHANGED << build, diskVars, exitCode, searchVars, traceVars, restarts, killedAt,
                  auxFiles, commandVars, path, emitted, calls, heapVars, rewriteVars,
                  processQueue, processQueueHead, processQueueTail, processQueueMutex,
                  stopWorkers, held, local, cacheMutex, queueMutex, finishMutex,
                  tempMutex, made, appended, expanded >>

\* filterStreams is through: flushProcessingQueue() has returned and every
\* record of the group was written to closing-g
ExpandEnd ==
  /\ pc = "workers"
  /\ thread[0] = "idle"
  /\ pc' = "process"
  /\ closing' = [closing EXCEPT ![currentFrameGroup] = @ \o todo]
  /\ todo' = << >>
  /\ UNCHANGED << build, open, merged, closed, allnew, all, chunk, solution, solutionTxt,
                  exitCode, queue, ram, ramUsed, firstFrameGroup, currentFrameGroup,
                  exitFound, exitFrame, exitState, traceVars, restarts, killedAt,
                  auxFiles, commandVars, path, emitted, calls, workerVars, componentVars >>

\* processState(cs) up to finishCheck's test of isFinish, and expandChildren
ProcessBegin ==
  \E i \in Workers :
    /\ At(i, "enter")
    /\ LET w == work[held[i]]
           s == decompress(w.rec[1])
           currentFrame == GET_FRAME(build, w.group, w.rec)
       IN  IF isFinish(build, s)
           THEN /\ Goto(i, [at |-> "finish_lock", cs |-> s, frame |-> currentFrame])
                /\ UNCHANGED << expanded, emitted >>
           ELSE /\ Goto(i, [at |-> "child",
                            kids |-> expandChildren(build, currentFrame, s)])
                /\ expanded' = expanded \cup { held[i] }
                /\ emitted' = Emit(build, emitted, expandChildren(build, currentFrame, s))
    /\ Stay
    /\ UNCHANGED << ExpandFrame, open, queue, ram, pc, exitCode, exitFound, exitFrame,
                    exitState, cacheMutex, queueMutex, finishMutex, tempMutex, made,
                    appended >>

\* SCOPED_LOCK lock(finishMutex) that does not wait
FinishLockNoWait ==
  \E i \in Workers :
    /\ At(i, "finish_lock")
    /\ finishMutex' = i
    /\ Goto(i, [at |-> "finish_test"])
    /\ Stay
    /\ UNCHANGED << ExpandFrame, open, queue, ram, pc, exitCode, exitFound, exitFrame,
                    exitState, cacheMutex, queueMutex, tempMutex, made, appended,
                    expanded, emitted >>

\* SCOPED_LOCK lock(finishMutex)
FinishLock ==
  \E i \in Workers :
    /\ At(i, "finish_lock")
    /\ finishMutex = Nobody
    /\ finishMutex' = i
    /\ Goto(i, [at |-> "finish_test"])
    /\ Stay
    /\ UNCHANGED << ExpandFrame, open, queue, ram, pc, exitCode, exitFound, exitFrame,
                    exitState, cacheMutex, queueMutex, tempMutex, made, appended,
                    expanded, emitted >>

\* if (exitFound) { if (exitFrame > frame) ... } else { exitFound = true; ...
FinishTest ==
  \E i \in Workers :
    /\ At(i, "finish_test")
    /\ IF exitFound
       THEN /\ Goto(i, [at |-> IF exitFrame > local[i].frame THEN "finish_frame"
                               ELSE "finish_unlock"])
            /\ UNCHANGED exitFound
       ELSE /\ exitFound' = TRUE
            /\ Goto(i, [at |-> "finish_frame"])
    /\ Stay
    /\ UNCHANGED << ExpandFrame, open, queue, ram, pc, exitCode, exitFrame, exitState,
                    cacheMutex, queueMutex, finishMutex, tempMutex, made, appended,
                    expanded, emitted >>

\* exitFrame = frame
FinishFrame ==
  \E i \in Workers :
    /\ At(i, "finish_frame")
    /\ exitFrame' = local[i].frame
    /\ Goto(i, [at |-> "finish_state"])
    /\ Stay
    /\ UNCHANGED << ExpandFrame, open, queue, ram, pc, exitCode, exitFound, exitState,
                    cacheMutex, queueMutex, finishMutex, tempMutex, made, appended,
                    expanded, emitted >>

\* exitState = *s
FinishState ==
  \E i \in Workers :
    /\ At(i, "finish_state")
    /\ exitState' = local[i].cs
    /\ Goto(i, [at |-> "finish_unlock"])
    /\ Stay
    /\ UNCHANGED << ExpandFrame, open, queue, ram, pc, exitCode, exitFound, exitFrame,
                    cacheMutex, queueMutex, finishMutex, tempMutex, made, appended,
                    expanded, emitted >>

\* return true: the lock goes out of scope, processState returns
FinishUnlock ==
  \E i \in Workers :
    /\ At(i, "finish_unlock")
    /\ finishMutex' = Nobody
    /\ Return(i)
    /\ UNCHANGED << ExpandFrame, open, queue, ram, pc, exitCode, exitFound, exitFrame,
                    exitState, cacheMutex, queueMutex, tempMutex, made, appended,
                    expanded, emitted >>

\* the child handler is called for the next child: addState(state, frame)
\* up to the lock; after the last child processState returns
ChildNext ==
  \E i \in Workers :
    /\ At(i, "child")
    /\ IF local[i].kids = << >>
       THEN Return(i)
       ELSE LET c  == Head(local[i].kids)
                cs == compress(c.state)
            IN  /\ Goto(i, [at |-> "cache_lock", kids |-> Tail(local[i].kids),
                            cs |-> cs, frame |-> c.frame,
                            hash |-> Mod32(hashTable[cs], CACHE_HASH_SIZE(build))])
                /\ Stay
    /\ UNCHANGED << ExpandFrame, open, queue, ram, pc, exitCode, exitFound, exitFrame,
                    exitState, cacheMutex, queueMutex, finishMutex, tempMutex, made,
                    appended, expanded, emitted >>

\* SCOPED_LOCK lock(cacheMutex[hash % PARTITIONS]) that does not wait
CacheLockNoWait ==
  \E i \in Workers :
    /\ At(i, "cache_lock")
    /\ cacheMutex' = [cacheMutex EXCEPT ![local[i].hash % PARTITIONS(build)] = i]
    /\ Goto(i, [at |-> "cache_look"])
    /\ Stay
    /\ UNCHANGED << ExpandFrame, open, queue, ram, pc, exitCode, exitFound, exitFrame,
                    exitState, queueMutex, finishMutex, tempMutex, made, appended,
                    expanded, emitted >>

\* SCOPED_LOCK lock(cacheMutex[hash % PARTITIONS])
CacheLock ==
  \E i \in Workers :
    /\ At(i, "cache_lock")
    /\ cacheMutex[local[i].hash % PARTITIONS(build)] = Nobody
    /\ cacheMutex' = [cacheMutex EXCEPT ![local[i].hash % PARTITIONS(build)] = i]
    /\ Goto(i, [at |-> "cache_look"])
    /\ Stay
    /\ UNCHANGED << ExpandFrame, open, queue, ram, pc, exitCode, exitFound, exitFrame,
                    exitState, queueMutex, finishMutex, tempMutex, made, appended,
                    expanded, emitted >>

\* the loop over cache[hash]: on a hit with a larger frame writeOpenState is
\* called with the lock held
CacheLook ==
  \E i \in Workers :
    /\ At(i, "cache_look")
    /\ LET hash == local[i].hash
           hits == { j \in 0 .. (NODES_PER_HASH(build) - 1) :
                       ram[StateCell(build, hash, j)] = local[i].cs }
       IN  IF hits # { }
           THEN LET j == CHOOSE k \in hits : \A l \in hits : k <= l
                IN  IF ram[FrameCell(build, hash, j)] > local[i].frame
                    THEN Goto(i, [at |-> "open", ret |-> "cache_move", n |-> j,
                                  miss |-> FALSE])
                    ELSE Goto(i, [at |-> "cache_move", n |-> j, miss |-> FALSE])
           ELSE Goto(i, [at |-> "cache_move", n |-> NODES_PER_HASH(build) - 1,
                         miss |-> TRUE])
    /\ Stay
    /\ UNCHANGED << ExpandFrame, open, queue, ram, pc, exitCode, exitFound, exitFrame,
                    exitState, cacheMutex, queueMutex, finishMutex, tempMutex, made,
                    appended, expanded, emitted >>

\* memmove(nodes+1, nodes, n * sizeof(CacheNode))
CacheMove ==
  \E i \in Workers :
    /\ At(i, "cache_move")
    /\ LET hash == local[i].hash
       IN  ram' = [ c \in DOMAIN ram |->
                      IF c > FrameCell(build, hash, 0) /\ c <= FrameCell(build, hash, local[i].n)
                      THEN ram[c - 2] ELSE ram[c] ]
    /\ Goto(i, [at |-> "cache_store"])
    /\ Stay
    /\ UNCHANGED << ExpandFrame, open, queue, pc, exitCode, exitFound, exitFrame,
                    exitState, cacheMutex, queueMutex, finishMutex, tempMutex, made,
                    appended, expanded, emitted >>

\* nodes[0].state = cs; nodes[0].frame = (PACKED_FRAME)frame; the lock goes
\* out of scope; a new node is then written to its open file
CacheStore ==
  \E i \in Workers :
    /\ At(i, "cache_store")
    /\ LET hash == local[i].hash
       IN  ram' = [ram EXCEPT ![StateCell(build, hash, 0)] = local[i].cs,
                              ![FrameCell(build, hash, 0)] =
                                 PACKED_FRAME(build, local[i].frame)]
    /\ cacheMutex' = [cacheMutex EXCEPT ![local[i].hash % PARTITIONS(build)] = Nobody]
    /\ IF local[i].miss
       THEN Goto(i, [at |-> "open", ret |-> "child"])
       ELSE Goto(i, [at |-> "child"])
    /\ Stay
    /\ UNCHANGED << ExpandFrame, open, queue, pc, exitCode, exitFound, exitFrame,
                    exitState, queueMutex, finishMutex, tempMutex, made, appended,
                    expanded, emitted >>

\* writeOpenState(state, frame) up to the lock: the two tests, SET_SUBFRAME
OpenCheck ==
  \E i \in Workers :
    /\ At(i, "open")
    /\ LET group == local[i].frame \div K
       IN  IF group >= MAX_FRAME_GROUPS(build) \/ noQueue[group]
           THEN Goto(i, [at |-> local[i].ret])
           ELSE Goto(i, [at |-> "queue_lock",
                         rec |-> << local[i].cs, local[i].frame % K >>])
    /\ Stay
    /\ UNCHANGED << ExpandFrame, open, queue, ram, pc, exitCode, exitFound, exitFrame,
                    exitState, cacheMutex, queueMutex, finishMutex, tempMutex, made,
                    appended, expanded, emitted >>

\* SCOPED_LOCK lock(queueMutex[group]) that does not wait
QueueLockNoWait ==
  \E i \in Workers :
    /\ At(i, "queue_lock")
    /\ queueMutex' = [queueMutex EXCEPT ![local[i].frame \div K] = i]
    /\ Goto(i, [at |-> "queue_test"])
    /\ Stay
    /\ UNCHANGED << ExpandFrame, open, queue, ram, pc, exitCode, exitFound, exitFrame,
                    exitState, cacheMutex, finishMutex, tempMutex, made, appended,
                    expanded, emitted >>

\* SCOPED_LOCK lock(queueMutex[group])
QueueLock ==
  \E i \in Workers :
    /\ At(i, "queue_lock")
    /\ queueMutex[local[i].frame \div K] = Nobody
    /\ queueMutex' = [queueMutex EXCEPT ![local[i].frame \div K] = i]
    /\ Goto(i, [at |-> "queue_test"])
    /\ Stay
    /\ UNCHANGED << ExpandFrame, open, queue, ram, pc, exitCode, exitFound, exitFrame,
                    exitState, cacheMutex, finishMutex, tempMutex, made, appended,
                    expanded, emitted >>

\* if (!queue[group]); the name of the file takes two calls of format, one in
\* formatFileName and one in formatProblemFileName
QueueTest ==
  \E i \in Workers :
    /\ At(i, "queue_test")
    /\ IF queue[local[i].frame \div K] = NoQueue
       THEN Goto(i, [at |-> "temp_lock", fmt |-> 2])
       ELSE Goto(i, [at |-> "queue_pos"])
    /\ Stay
    /\ UNCHANGED << ExpandFrame, open, queue, ram, pc, exitCode, exitFound, exitFrame,
                    exitState, cacheMutex, queueMutex, finishMutex, tempMutex, made,
                    appended, expanded, emitted >>

\* format -> getTempString(): SCOPED_LOCK lock(mutex)
TempLock ==
  \E i \in Workers :
    /\ At(i, "temp_lock")
    /\ tempMutex = Nobody
    /\ tempMutex' = i
    /\ Goto(i, [at |-> "temp_index"])
    /\ Stay
    /\ UNCHANGED << ExpandFrame, open, queue, ram, pc, exitCode, exitFound, exitFrame,
                    exitState, cacheMutex, queueMutex, finishMutex, made, appended,
                    expanded, emitted >>

\* index = bufIndex++ % 64, and the lock goes out of scope; the buffers hold
\* file names, which the files of the model do not have
TempIndex ==
  \E i \in Workers :
    /\ At(i, "temp_index")
    /\ tempMutex' = Nobody
    /\ Goto(i, [at |-> IF local[i].fmt = 1 THEN "queue_new" ELSE "temp_lock",
                  fmt |-> local[i].fmt - 1])
    /\ Stay
    /\ UNCHANGED << ExpandFrame, open, queue, ram, pc, exitCode, exitFound, exitFrame,
                    exitState, cacheMutex, queueMutex, finishMutex, made, appended,
                    expanded, emitted >>

\* queue[group] = new BufferedOutputStream(...); OutputStream::open uses
\* CREATE_NEW, and error() ends the process
QueueNew ==
  \E i \in Workers :
    /\ At(i, "queue_new")
    /\ LET group == local[i].frame \div K
       IN  /\ made' = [made EXCEPT ![group] = @ + 1]
           /\ IF open[group] # NoFile
              THEN /\ Fail
                   /\ UNCHANGED << open, queue, local >>
              ELSE /\ open' = [open EXCEPT ![group] = << >>]
                   /\ queue' = [queue EXCEPT ![group] = << >>]
                   /\ Goto(i, [at |-> "queue_pos"])
                   /\ UNCHANGED << pc, exitCode >>
    /\ Stay
    /\ UNCHANGED << ExpandFrame, ram, exitFound, exitFrame, exitState, cacheMutex,
                    queueMutex, finishMutex, tempMutex, appended, expanded, emitted >>

\* WriteBuffer::write reads pos
QueuePos ==
  \E i \in Workers :
    /\ At(i, "queue_pos")
    /\ Goto(i, [at |-> "queue_put", pos |-> Len(queue[local[i].frame \div K])])
    /\ Stay
    /\ UNCHANGED << ExpandFrame, open, queue, ram, pc, exitCode, exitFound, exitFrame,
                    exitState, cacheMutex, queueMutex, finishMutex, tempMutex, made,
                    appended, expanded, emitted >>

\* buf[pos++] = *p; if (pos == size) flushBuffer(); the lock goes out of
\* scope and writeOpenState returns
QueuePut ==
  \E i \in Workers :
    /\ At(i, "queue_put")
    /\ LET group == local[i].frame \div K
           buf   == SubSeq(queue[group], 1, local[i].pos) \o << local[i].rec >>
       IN  /\ IF Len(buf) = STANDARD_BUFFER_SIZE
              THEN /\ open' = [open EXCEPT ![group] = @ \o buf]
                   /\ queue' = [queue EXCEPT ![group] = << >>]
              ELSE /\ queue' = [queue EXCEPT ![group] = buf]
                   /\ UNCHANGED open
           /\ appended' = [appended EXCEPT ![group] =
                             Append(@, [worker |-> i, cs |-> local[i].cs,
                                        frame |-> local[i].frame])]
           /\ queueMutex' = [queueMutex EXCEPT ![group] = Nobody]
    /\ Goto(i, [at |-> local[i].ret])
    /\ Stay
    /\ UNCHANGED << ExpandFrame, ram, pc, exitCode, exitFound, exitFrame, exitState,
                    cacheMutex, finishMutex, tempMutex, made, expanded, emitted >>

\* the search without kills, its filter handing the records to the workers; the
\* groups of the build fit the sort buffer, so no chunk file is written
NextExpand ==
  \/ Start \/ CloseQueue
  \/ SortChunks \/ MergeChunks \/ ClearCache
  \/ FilterBegin \/ ExpandStart \/ ExpandEnd \/ FilterEnd
  \/ ExitFound \/ DeleteOpen \/ RenameClosing \/ NextGroup
  \/ Lock \/ QueueState \/ DequeueState \/ WorkerExit \/ Flush \/ FlushWait
  \/ ProcessBegin \/ FinishLock \/ FinishTest \/ FinishFrame \/ FinishState
  \/ FinishUnlock
  \/ ChildNext \/ CacheLock \/ CacheLook \/ CacheMove \/ CacheStore
  \/ OpenCheck \/ QueueLock \/ QueueTest \/ TempLock \/ TempIndex \/ QueueNew
  \/ QueuePos \/ QueuePut

SpecExpand == InitExpand /\ [][NextExpand]_vars

(***************************************************************************)
(* Reference notions the properties are stated with                        *)
(***************************************************************************)
Payloads(f) == { f[i][1] : i \in DOMAIN f }

\* a frame no state is reached at
Unreached == MAX_FRAMES + 1

\* the states that some path of the graph of expandChildren reaches at
\* exactly this frame
RECURSIVE ReachedAt(_, _)
ReachedAt(b, frame) ==
  IF frame = 0 THEN Range(Problems[b.prob].initialStates)
  ELSE UNION { UNION { { c.state : c \in { k \in Range(expandChildren(b, f, u)) :
                                              k.frame = frame } } :
                       u \in ReachedAt(b, f) } :
               f \in 0 .. (frame - 1) }

\* the length of a shortest path from an initial state, per state
ShortestPaths(b) ==
  LET reach == [f \in 0 .. MAX_FRAMES |-> ReachedAt(b, f)]
  IN  [s \in States(b) |->
         LET at == { f \in 0 .. MAX_FRAMES : s \in reach[f] }
         IN  IF at = { } THEN Unreached ELSE CHOOSE f \in at : \A h \in at : f <= h]

\* the same for every build, computed once
shortestTable == [b \in Builds |-> ShortestPaths(b)]

ShortestFrame(b) == shortestTable[b]

\* the smallest shortest-path frame of a finish state
ShortestFinishFrame(b) ==
  LET fs == { ShortestFrame(b)[s] : s \in Problems[b.prob].finish }
  IN  IF fs = { } THEN Unreached ELSE CHOOSE f \in fs : \A h \in fs : f <= h

\* the cells next to s that are not walls
Neighbours(s) ==
  { u \in { Cell(CellX(s), CellY(s) - 1), Cell(CellX(s) + 1, CellY(s)),
            Cell(CellX(s), CellY(s) + 1), Cell(CellX(s) - 1, CellY(s)) } :
      level[CellY(u) + 1][CellX(u) + 1] # "#" }

\* the number of moves after which a walk from the cells of front, that has
\* seen the cells of seen, first stands on an F cell; d moves were made so far
RECURSIVE MovesToFinish(_, _, _)
MovesToFinish(front, seen, d) ==
  IF \E s \in front : level[CellY(s) + 1][CellX(s) + 1] = "F" THEN d
  ELSE IF front = { } THEN SAMPLE_MAX_FRAMES + 1
  ELSE MovesToFinish(UNION { Neighbours(s) : s \in front } \ seen,
                     seen \cup UNION { Neighbours(s) : s \in front }, d + 1)

\* the shortest-path distance from a start cell to F, one frame per move
StartDistance(s) == MovesToFinish({ s }, { s }, 0)

\* the smaller of the distances of the S cells
SampleMazeExitFrame ==
  LET ds == { StartDistance(s) : s \in Range(SampleMaze.initialStates) }
  IN  CHOOSE d \in ds : \A e \in ds : d <= e

ClosedOrEmpty(g) == IF closed[g] # NoFile THEN closed[g] ELSE << >>

TracePcs == { "trace", "tracescan", "tracewrite", "tracedel" }

\* the places of a group step up to the promotion of closing-g: the sort, the
\* merge, the filter with the expansion, and the deletion of open-g
GroupStepPcs == { "sort", "merge", "merged", "delchunks", "clear", "filter", "process",
                  "exitcheck", "rename" }

(***************************************************************************)
(* Properties                                                              *)
(***************************************************************************)
\* C1: in a run that was never interrupted, every record of every closed-g
\* file carries, as g * FRAMES_PER_GROUP + subframe, the length of a shortest
\* path from an initial state to its state.
C1_ClosedFrameIsShortestPath ==
  restarts = 0 =>
    \A g \in Groups(build) :
      closed[g] # NoFile =>
        \A i \in DOMAIN closed[g] :
          GET_FRAME(build, g, closed[g][i])
            = ShortestFrame(build)[decompress(closed[g][i][1])]

\* C2: in a run that was never interrupted, once the search has found an exit
\* and gone on to trace it, exitFrame is the smallest shortest-path frame of
\* any finish state, and the search stopped in the group of that frame.
C2_ExitFrameIsMinimal ==
  (restarts = 0 /\ exitFound /\ pc \in TracePcs \cup { "done" }) =>
    /\ exitFrame = ShortestFinishFrame(build)
    /\ currentFrameGroup = exitFrame \div K

\* C3: two closed files of different groups never hold a common payload, in
\* the USE_ALL build and in the build without it.
C3_ClosedDisjoint ==
  \A g1, g2 \in Groups(build) :
    (g1 # g2 /\ closed[g1] # NoFile /\ closed[g2] # NoFile) =>
      Payloads(closed[g1]) \cap Payloads(closed[g2]) = { }

\* C3 happens: a later group was promoted although states of an earlier closed
\* file had been emitted into it again
C3_Witness ==
  \E g1, g2 \in Groups(build) :
    /\ g1 < g2 /\ build.useAll
    /\ closed[g1] # NoFile /\ closed[g2] # NoFile /\ closed[g2] # << >>
    /\ Payloads(emitted[g2]) \cap Payloads(closed[g1]) # { }

\* C4: the payloads of every closed file are strictly increasing.
C4_ClosedStrictlyIncreasing ==
  \A g \in Groups(build) :
    closed[g] # NoFile =>
      \A i \in 1 .. (Len(closed[g]) - 1) : closed[g][i][1] < closed[g][i + 1][1]

\* C4 happens: a closed file of several records that went through more than
\* one chunk, its open file having been written out of order
C4_Witness ==
  \E g \in Groups(build) :
    /\ closed[g] # NoFile
    /\ Len(closed[g]) > BUFFER_SIZE(build)
    /\ \E i \in 1 .. (Len(emitted[g]) - 1) : emitted[g][i][1] > emitted[g][i + 1][1]

\* C5: every pair the exit trace records is an edge of the graph: expanding
\* the recorded parent at its frame yields the state searched for at exactly
\* its frame, under the recorded step; the pairs form a chain that starts at
\* the exit state at exitFrame, and the steps kept are those of the chain.
C5_TraceIsSound ==
  /\ \A i \in DOMAIN path :
       /\ \E c \in Range(expandChildren(build, path[i].parentFrame, path[i].parent)) :
            c.state = path[i].state /\ c.frame = path[i].frame /\ c.step = path[i].step
       /\ i > 1 => /\ path[i].state = path[i - 1].parent
                   /\ path[i].frame = path[i - 1].parentFrame
  /\ (exitFound /\ pc \in TracePcs \cup { "done" }) =>
       /\ path # << >> => path[1].state = exitState /\ path[1].frame = exitFrame
       /\ steps = [i \in DOMAIN path |-> path[i].step]

\* C5 happens: a trace of at least two steps ran to its end
C5_Witness ==
  /\ pc = "done" /\ exitCode = EXIT_OK /\ exitFound
  /\ Len(path) >= 2
  /\ solutionTxt.exists /\ solutionTxt.steps = steps

\* C6: with FRAMES_PER_GROUP = 1 (where a run that is never interrupted ends
\* without an error), a search that was killed during a group step, at any
\* place from the sort to the renames, and then started again does not end
\* with an error.
C6_ResumeCompletes ==
  (build.K = 1 /\ pc = "done" /\ killedAt # { } /\ killedAt \subseteq { "step", "rename" }) =>
    exitCode # EXIT_ERROR

\* C7: after a kill between deleteFile(open-g) and renameFile(closing-g,
\* closed-g), the search that is started again does not pass over the group it
\* resumes at while that group's closing file is there and its closed file is
\* not.
C7_ClosingNotSkipped ==
  (killedAt = { "rename" } /\ pc \notin { "start" } \cup TracePcs) =>
    \A g \in Groups(build) :
      (g = firstFrameGroup /\ closing[g] # NoFile /\ closed[g] = NoFile) =>
        currentFrameGroup <= g

\* C8: the search loop is entered at the group after the largest group that
\* has a closed file, group 0 included, and at group 0 only when no closed
\* file exists.
C8_ResumeAfterLargestClosed ==
  (pc = "loop" /\ currentFrameGroup = firstFrameGroup) =>
    LET found == { g \in Groups(build) : closed[g] # NoFile }
    IN  firstFrameGroup =
          IF found = { } THEN 0 ELSE (CHOOSE g \in found : \A h \in found : h <= g) + 1

\* C9: when the only kill happened during traceExit, the search that is
\* started again ends with EXIT_OK and has written solution.txt.
C9_TraceResumeCompletes ==
  (pc = "done" /\ killedAt = { "trace" }) =>
    exitCode = EXIT_OK /\ solutionTxt.exists

\* C10: with FRAMES_PER_GROUP = 1 and in a run that was never interrupted,
\* every group the search is through with has the closed file that sorting,
\* deduplicating and filtering all the records handed to addState for that
\* group gives, as with a cache that suppresses nothing.
C10_CacheIsTransparent ==
  (restarts = 0 /\ build.K = 1) =>
    \A g \in Groups(build) :
      g < currentFrameGroup =>
        ClosedOrEmpty(g)
          = filterStream(deduplicate(SortNodes(emitted[g])), ClosedInputs(0, g))

\* C11: once closed-g exists, no step of search, in this run or in a run
\* started later, deletes it or changes its records, and search is never again
\* at work on group g (sorting, filtering or expanding it).
C11_ClosedImmutable ==
  [][\A g \in Groups(build) :
       closed[g] # NoFile =>
         /\ closed'[g] = closed[g]
         /\ ~(currentFrameGroup' = g /\ pc' \in GroupStepPcs)]_vars

Phase ==
  [loop |-> 0, sort |-> 1, merge |-> 2, merged |-> 3, delchunks |-> 4, clear |-> 5,
   filter |-> 6, process |-> 7, exitcheck |-> 8, rename |-> 9, delall |-> 10,
   renall |-> 11, next |-> 12]

\* how far search is from its return: before the loop; in the loop, by the
\* groups left, the place in the body and the records the filter has still to
\* hand over; in traceExit, by the groups left to scan; returned
Rank ==
  CASE pc = "done" -> << 0, 0, 0 >>
    [] pc = "tracedel" -> << 1, 0, 0 >>
    [] pc = "tracewrite" -> << 1, 1, 0 >>
    [] pc = "trace" -> << 1, 2 * (exitSearchFrameGroup + 1) + 2, 0 >>
    [] pc = "tracescan" -> << 1, 2 * (exitSearchFrameGroup + 1) + 3, 0 >>
    [] pc = "start" -> << 3, 0, 0 >>
    [] OTHER -> << 2, 13 * (maxFrameGroups - currentFrameGroup) + 12 - Phase[pc],
                   Len(todo) >>

\* the lexicographic order of ranks
LexLess(r, s) ==
  \/ r[1] < s[1]
  \/ r[1] = s[1] /\ r[2] < s[2]
  \/ r[1] = s[1] /\ r[2] = s[2] /\ r[3] < s[3]

\* the steps of search other than the sort, the merge, the start of the filter
\* and the expansion of a record
LightSteps ==
  \/ Start \/ StartResumeTrace \/ NotFound \/ SkipGroup \/ CloseQueue
  \/ RenameMerging \/ DeleteChunks \/ ClearCache \/ FilterEnd
  \/ ExitFound \/ DeleteOpen \/ RenameClosing \/ DeleteAll \/ RenameAll
  \/ Stop \/ NextGroup \/ TraceSave \/ TraceScan \/ TraceWrite \/ TraceDelete

\* the guards of SortChunks, MergeChunks, FilterBegin, FilterBeginAll0,
\* FilterBeginAll and ProcessRecord, which define a next state wherever their
\* guard holds
HeavyStepGuard ==
  \/ pc \in { "sort", "merge", "filter" }
  \/ pc = "process" /\ todo # << >>

\* C14: every run of search comes to an end: each of its steps brings it closer
\* to its return (the rank goes down, and no rank is below zero) and it is
\* never stuck before it; it returns EXIT_OK only out of traceExit with
\* solution.txt written, EXIT_STOP only when stop.txt was there, EXIT_NOTFOUND
\* exactly when the loop over the groups has run out, no finish state having
\* been dequeued, and EXIT_ERROR otherwise; a group in which a finish state
\* was dequeued is followed by the trace.
C14_TerminatesWithExitCode ==
  /\ [][(pc # "done" /\ pc' = "done") =>
          /\ exitCode' \in { EXIT_OK, EXIT_STOP, EXIT_NOTFOUND, EXIT_ERROR }
          /\ exitCode' = EXIT_OK => pc \in TracePcs /\ solutionTxt'.exists
          /\ exitCode' = EXIT_STOP => stopFile
          /\ exitCode' = EXIT_NOTFOUND =>
               pc = "loop" /\ currentFrameGroup = maxFrameGroups /\ ~exitFound
          /\ (pc = "loop" /\ currentFrameGroup >= maxFrameGroups) =>
               exitCode' = EXIT_NOTFOUND]_vars
  /\ [][(pc = "exitcheck" /\ exitFound /\ restarts' = restarts /\ stopFile' = stopFile)
          => pc' = "trace"]_vars
  /\ [][(restarts' = restarts /\ (stopFile' = stopFile \/ stopFile)) =>
          LexLess(Rank', Rank)]_vars
  /\ [](\A i \in 1 .. 3 : Rank[i] >= 0)
  /\ [](pc = "done" \/ HeavyStepGuard \/ ENABLED LightSteps)

\* C14 happens: a search that processed groups with records has run through
\* all groups and returned EXIT_NOTFOUND
C14_Witness ==
  /\ pc = "done" /\ exitCode = EXIT_NOTFOUND
  /\ currentFrameGroup = maxFrameGroups
  /\ \E g \in Groups(build) : g > 0 /\ closed[g] \notin { NoFile, << >> }

\* C15: in the USE_ALL build at most one all file exists at any time, and
\* when group g has been promoted the all file is all-g: its payloads are
\* strictly increasing and are exactly the payloads of the closed files of the
\* groups up to g.
C15_OneAllFile ==
  build.useAll =>
    /\ Cardinality({ g \in Groups(build) : all[g] # NoFile }) <= 1
    /\ pc = "next" =>
         LET g == currentFrameGroup
         IN  /\ all[g] # NoFile
             /\ \A i \in 1 .. (Len(all[g]) - 1) : all[g][i][1] < all[g][i + 1][1]
             /\ Payloads(all[g]) =
                  UNION { Payloads(closed[h]) :
                            h \in { k \in 0 .. g : closed[k] # NoFile } }

\* C15 happens: a group after the first was promoted in the USE_ALL build, with
\* records of its own, and its all file holds records of earlier groups too
C15_Witness ==
  /\ build.useAll /\ pc = "next" /\ currentFrameGroup > 0
  /\ closed[currentFrameGroup] \notin { NoFile, << >> }
  /\ all[currentFrameGroup] # NoFile
  /\ Len(all[currentFrameGroup]) > Len(closed[currentFrameGroup])

\* C19: when a restarted search comes to sort a group of which a killed run
\* left chunk files or a merging file, but no merged file, neither the sort nor
\* the merge ends the search with an error.
C19_ResortOverwritesLeftovers ==
  [][LET g == currentFrameGroup
     IN  (/\ pc \in { "sort", "merge" }
          /\ killedAt # { } /\ restarts' = restarts
          /\ merged[g] = NoFile
          /\ open[g] \notin { NoFile, << >> }
          /\ pc = "sort" => (chunk[g] # << >> \/ merging[g] # NoFile)
          /\ pc = "merge" => merging[g] # NoFile)
         => ~(pc' = "done" /\ exitCode' = EXIT_ERROR)]_vars

\* the records on disk, of any open, closing or closed file, as <<payload, frame>>
WrittenRecords ==
  UNION { { << f[g][i][1], GET_FRAME(build, g, f[g][i]) >> : i \in DOMAIN f[g] } :
            << f, g >> \in { << f, g >> \in { open, closing, closed } \X Groups(build) :
                               f[g] # NoFile } }

\* C20: in a run that started from a zeroed arena and was never interrupted,
\* once the open writers are flushed at the end of a group's expansion, every
\* state that was handed to addState with a frame is on disk with the same
\* payload and a frame that is not larger, whether addState wrote it or
\* suppressed it.
C20_SuppressionIsSafe ==
  (restarts = 0 /\ build.arena = "fresh" /\ pc = "exitcheck") =>
    \A g \in Groups(build) : \A i \in DOMAIN emitted[g] :
      \E w \in WrittenRecords :
        /\ w[1] = emitted[g][i][1]
        /\ w[2] <= GET_FRAME(build, g, emitted[g][i])

\* the smallest subframe a record of f carries payload p with
MinSubframe(f, p) ==
  LET subs == { f[i][2] : i \in { j \in DOMAIN f : f[j][1] = p } }
  IN  CHOOSE u \in subs : \A v \in subs : u <= v

\* sorted in payload order with no payload twice
SortedUnique(f) == \A i \in 1 .. (Len(f) - 1) : f[i][1] < f[i + 1][1]

\* the groups of the range the command was given
InRange(g) == g >= firstFrameGroup /\ g < maxFrameGroups

\* the payloads of the closed files and of the all files
KnownPayloads ==
  UNION { Payloads(closed[g]) : g \in { h \in Groups(build) : closed[h] # NoFile } }
    \cup UNION { Payloads(all[g]) : g \in { h \in Groups(build) : all[h] # NoFile } }

\* the frames at which payload p occurs in the open files f
OpenFrames(f, p) ==
  UNION { { GET_FRAME(build, g, f[g][i]) : i \in { j \in DOMAIN f[g] : f[g][j][1] = p } } :
          g \in { h \in Groups(build) : f[h] # NoFile } }

\* the lowest of them
LowestOpenFrame(f, p) == CHOOSE n \in OpenFrames(f, p) : \A h \in OpenFrames(f, p) : n <= h

\* C16: when filter-open was started on open files that are each sorted and
\* payload-unique and has returned EXIT_OK, (a) no payload of an open file
\* occurs in a closed file or an all file, (b) every payload of an open file
\* occurs once, in the file of the lowest frame at which it occurred before,
\* with the subframe of that frame, and (c) every payload that occurred in an
\* open file before and occurs in no closed file still occurs in one.
C16_FilterOpenFilters ==
  (/\ command = "filter-open" /\ pc = "done" /\ exitCode = EXIT_OK
   /\ \A g \in Groups(build) : atStart.open[g] # NoFile => SortedUnique(atStart.open[g]))
  =>
    /\ \A g \in Groups(build) : (open[g] = NoFile) <=> (atStart.open[g] = NoFile)
    /\ \A g \in Groups(build) : open[g] # NoFile =>
         \A i \in DOMAIN open[g] :
           LET p == open[g][i][1]
               lowest == LowestOpenFrame(atStart.open, p)
           IN  /\ p \notin KnownPayloads
               /\ OpenFrames(atStart.open, p) # { }
               /\ g = lowest \div K
               /\ open[g][i][2] = lowest % K
               /\ \A h \in Groups(build) : open[h] # NoFile =>
                    \A j \in DOMAIN open[h] : open[h][j][1] = p => (h = g /\ j = i)
    /\ \A g \in Groups(build) : atStart.open[g] # NoFile =>
         \A i \in DOMAIN atStart.open[g] :
           atStart.open[g][i][1] \notin KnownPayloads =>
             OpenFrames(open, atStart.open[g][i][1]) # { }

C16_Witness ==
  /\ command = "filter-open" /\ pc = "done" /\ exitCode = EXIT_OK
  /\ \A g \in Groups(build) : atStart.open[g] # NoFile => SortedUnique(atStart.open[g])
  /\ \E g \in Groups(build) :
       /\ atStart.open[g] # NoFile
       /\ \E i \in DOMAIN atStart.open[g] : atStart.open[g][i][1] \in KnownPayloads
       /\ \E i \in DOMAIN atStart.open[g] :
            /\ Cardinality(OpenFrames(atStart.open, atStart.open[g][i][1])) > 1
            /\ atStart.open[g][i][1] \notin KnownPayloads
  /\ \E g \in Groups(build) : open[g] # NoFile /\ open[g] # << >>

C18_RegenerateOnlyNewGroups ==
  command = "regenerate-open" =>
    \A g \in Groups(build) :
      /\ closed[g] = atStart.closed[g]
      /\ atStart.open[g] # NoFile => open[g] = atStart.open[g]
      /\ (atStart.open[g] = NoFile /\ open[g] # NoFile) =>
           /\ atStart.closed[g] = NoFile
           /\ \A i \in DOMAIN open[g] :
                \E h \in firstFrameGroup .. (maxFrameGroups - 1) :
                  /\ closed[h] # NoFile
                  /\ \E k \in DOMAIN closed[h] :
                       /\ ~isFinish(build, decompress(closed[h][k][1]))
                       /\ \E c \in Range(expandChildren(build, GET_FRAME(build, h, closed[h][k]),
                                                        decompress(closed[h][k][1]))) :
                            /\ compress(c.state) = open[g][i][1]
                            /\ c.frame = GET_FRAME(build, g, open[g][i])

C18_Witness ==
  /\ command = "regenerate-open" /\ pc = "done" /\ exitCode = EXIT_OK
  /\ \E g \in Groups(build) :
       atStart.open[g] = NoFile /\ open[g] # NoFile /\ open[g] # << >>
  /\ \E g \in Groups(build) : atStart.open[g] # NoFile /\ atStart.open[g] # << >>
  /\ \E g \in Groups(build) : atStart.closed[g] # NoFile /\ ~InRange(g)

\* the records written for group g so far: the file, then the writer's buffer
WrittenTo(g) ==
  (IF open[g] = NoFile THEN << >> ELSE open[g])
    \o (IF queue[g] = NoQueue THEN << >> ELSE queue[g])

\* the frame of the latest call of addState with state s, -1 when there was none
LatestFrame(s) ==
  LET at == { i \in DOMAIN calls : calls[i][1] = s }
  IN  IF at = { } THEN -1 ELSE calls[CHOOSE i \in at : \A j \in at : j <= i][2]

\* s is in a node of its bucket
InBucket(s) ==
  \E i \in 0 .. (NODES_PER_HASH(build) - 1) :
    ram[StateCell(build, Mod32(hashTable[compress(s)], CACHE_HASH_SIZE(build)), i)]
      = compress(s)

\* the packed frame of the first node of its bucket that holds s
StoredFrame(s) ==
  LET hash == Mod32(hashTable[compress(s)], CACHE_HASH_SIZE(build))
      at == { i \in 0 .. (NODES_PER_HASH(build) - 1) :
                ram[StateCell(build, hash, i)] = compress(s) }
  IN  ram[FrameCell(build, hash, CHOOSE i \in at : \A j \in at : i <= j)]

\* C21: a call addState(s, f2) that follows addState(s, f1) with f2 < f1,
\* while s is still in its bucket, appends (s, f2) to the open queue of the
\* group of f2; and the packed frame stored in the node of s is greater than a
\* frame of the frame range exactly when the frame of the latest call is.
C21_BetterFrameIsWritten ==
  /\ [][\A s \in States(build), f2 \in CacheFrames :
          (calls' = Append(calls, << s, f2 >>) /\ InBucket(s) /\ f2 < LatestFrame(s)) =>
            WrittenTo(f2 \div K)' =
              Append(WrittenTo(f2 \div K), << compress(s), f2 % K >>)]_vars
  /\ [](\A s \in States(build), f2 \in CacheFrames :
          (InBucket(s) /\ LatestFrame(s) >= 0) =>
            ((StoredFrame(s) > f2) <=> (LatestFrame(s) > f2)))

\* C22: when the expansion of a group begins, the arena is as the clearing
\* left it: between the clearing and the first addState the arena is not
\* used as a buffer, and every unit the sort of the group wrote is zero.
C22_ArenaSingleOwner ==
  [][(pc = "filter" /\ pc' = "process") =>
       (ram' = ram /\ \A c \in 1 .. ramUsed : ram[c] = 0)]_vars

\* the records the handler has been given, in the order it was given them
HandledRecords == { e[2] : e \in BagToSet(handled) }

\* the value of processQueueHead when the phase began
PhaseStart == processQueueHead - Len(queued)

\* flushProcessingQueue has returned: the driver is between two phases
WorkersFlushed == thread[0] = "idle" /\ phase > 0

C25_RingBounds ==
  /\ [](/\ 0 <= processQueueHead - processQueueTail
        /\ processQueueHead - processQueueTail <= PROCESS_QUEUE_SIZE)
  /\ [](\A j \in processQueueTail .. (processQueueHead - 1) :
          processQueue[j % PROCESS_QUEUE_SIZE] = queued[j - PhaseStart + 1])
  /\ [][/\ processQueueHead' # processQueueHead =>
             processQueueHead - processQueueTail < PROCESS_QUEUE_SIZE
        /\ processQueueTail' # processQueueTail =>
             processQueueTail < processQueueHead]_vars

\* the feeder waits at a full ring whose slots have all been used before
C25_Witness ==
  /\ thread[0] = "wait_read"
  /\ processQueueHead - processQueueTail = PROCESS_QUEUE_SIZE
  /\ processQueueTail > 0

\* C26: worker phases are strictly serial: startWorkers is called only when
\* runningWorkers = 0 and the ring is empty, and no worker of a phase is still
\* running once the driver has left flushProcessingQueue
C26_PhasesAreSerial ==
  /\ [](thread[0] = "idle" =>
          /\ runningWorkers = 0
          /\ processQueueHead = processQueueTail
          /\ ~ stopWorkers
          /\ \A i \in DOMAIN thread : thread[i] = "idle")
  /\ [][phase' # phase =>
          /\ runningWorkers = 0
          /\ processQueueHead = processQueueTail
          /\ \A i \in DOMAIN thread : thread[i] = "idle"]_vars

\* a second phase that handled records has followed a first one that did
C26_Witness ==
  /\ phase = 2
  /\ thread[0] = "idle"
  /\ BagCardinality(handled) >= 2
  /\ PhaseStart > 0

\* C24: the shutdown barrier: a call of flushProcessingQueue always returns;
\* every worker of the phase, waiting at the empty ring or busy in the handler,
\* exits, runningWorkers reaches 0 and stopWorkers is false again on return
C24_FlushReturns ==
  (thread[0] # "idle") ~>
    (/\ WorkersFlushed
     /\ runningWorkers = 0
     /\ ~ stopWorkers
     /\ \A i \in DOMAIN thread : thread[i] = "idle")

\* the driver is about to set stopWorkers while one worker waits at the empty
\* ring and another is in the handler
C24_Witness ==
  /\ thread[0] = "flushProcessingQueue"
  /\ \E i, j \in DOMAIN thread : thread[i] = "wait_write" /\ thread[j] = "handler"

\* what the next group closes when the phase of the current group ends with
\* memory m: open-(g+1), flushed, sorted and deduplicated, without the
\* payloads of the closed files and of the group that is being closed
NextClosed(m) ==
  LET g1 == currentFrameGroup + 1
  IN  IF g1 \notin Groups(build) THEN NoFile
      ELSE IF m.open[g1] = NoFile /\ m.queue[g1] = NoQueue THEN NoFile
      ELSE filterStream(SortedChunk((IF m.open[g1] = NoFile THEN << >> ELSE m.open[g1])
                                    \o (IF m.queue[g1] = NoQueue THEN << >> ELSE m.queue[g1])),
                        ClosedInputs(0, currentFrameGroup) \o << todo >>)

\* C27: order independence: with merged-g and the earlier closed files fixed,
\* the next closed file is the same whichever order the workers handle the
\* records of the group in, the order of the single-threaded build included
C27_OrderIndependent ==
  (pc = "process" /\ closing[currentFrameGroup] = << >>) =>
    \A o \in HandlingOrders(todo, MaxWorkers) :
      NextClosed(ProcessAll(Memory, o)) = NextClosed(ProcessAll(Memory, todo))

\* the records of source whose payload is in none of the files, in source order
Unknown(source, files) ==
  LET known == UNION { { f[i][1] : i \in DOMAIN f } : f \in files }
      New(r) == r[1] \notin known
  IN  SelectSeq(source, New)

\* the closed files filterStream is given at the current group
OpenedClosed ==
  { closed[h] : h \in { j \in Groups(build) : j < currentFrameGroup /\ closed[j] # NoFile } }

C29_FilterStream ==
  /\ [][(pc = "filter" /\ ~ build.useAll) =>
          /\ pc' = "process"
          /\ todo' = Unknown(merged[currentFrameGroup], OpenedClosed)]_vars
  /\ []((pc = "process" /\ ~ build.useAll) =>
          closing[currentFrameGroup] \o todo =
            Unknown(merged[currentFrameGroup], OpenedClosed))
  /\ [][(pc = "process" /\ ~ build.useAll /\ todo # << >>) =>
          /\ todo' = Tail(todo)
          /\ closing'[currentFrameGroup] = Append(closing[currentFrameGroup], Head(todo))]_vars

\* the filter has written some records of the source and dropped others, with
\* two closed files open
C29_Witness ==
  /\ pc = "process"
  /\ build \in StreamBuilds /\ ~ build.useAll
  /\ todo = << >>
  /\ closing[currentFrameGroup] # << >>
  /\ Len(closing[currentFrameGroup]) < Len(merged[currentFrameGroup])
  /\ \A h \in 0 .. 1 : closed[h] \notin { NoFile, << >> }

AllRecords(ins) ==
  Unread(ins, [heap |-> << >>, size |-> 0, pos |-> [i \in DOMAIN ins |-> 0]])

\* C31: the heap holds every record of every open input after the
\* constructor; in every state a heap can get into by next and scanTo, each
\* node is at most its children, and reading it with getHead and next gives
\* every record it still holds exactly once, in non-decreasing payload order
C31_HeapYieldsAllInOrder ==
  heapCall.op # "none" =>
    /\ test(inputHeap)
    /\ heapCall.op = "new" => Unread(heapInputs, inputHeap) = AllRecords(heapInputs)
    /\ LET d == Drain(heapInputs, inputHeap)
       IN  IsSorted(d) /\ BagOfSeq(d) = Unread(heapInputs, inputHeap)

\* three inputs with records, read to the end with next
C31_Witness ==
  /\ heapCall = [op |-> "next", result |-> FALSE]
  /\ Len(heapInputs) = 3
  /\ \A i \in 1 .. 3 : heapInputs[i] # NoFile /\ heapInputs[i] # << >>
  /\ \E i \in 1 .. 3 : Len(heapInputs[i]) > 1
  /\ Unread(heapInputs, inputHeap) = EmptyBag

\* C32: from every state of a heap and for every target, scanTo leaves the
\* records and the head payload that next, repeated while the head is below
\* the target, leaves; it reads past records below the target only, returns
\* true with a head at or above the target exactly when such a record was
\* left, and false with nothing left otherwise
C32_ScanToIsRepeatedNext ==
  heapCall.op # "none" =>
    \A target \in HeapTargets :
      LET s == InputHeapScanTo(heapInputs, inputHeap, target)
          r == NextWhile(heapInputs, inputHeap, target)
          before == Unread(heapInputs, inputHeap)
          after == Unread(heapInputs, s.h)
          passed == before (-) after
      IN  /\ after = Unread(heapInputs, r)
          /\ s.h.size = r.size
          /\ s.h.size > 0 => getHead(s.h)[1] = getHead(r)[1]
          /\ test(s.h)
          /\ after \sqsubseteq before
          /\ \A x \in BagToSet(passed) : x[1] < target[1]
          /\ s.result <=> \E x \in BagToSet(before) : x[1] >= target[1]
          /\ s.result => s.h.size > 0 /\ getHead(s.h)[1] >= target[1]
          /\ ~s.result => after = EmptyBag /\ getHead(s.h) = NULL

\* a scan of a heap of three that read past records and stopped at a head
C32_Witness ==
  /\ heapCall = [op |-> "scanTo", result |-> TRUE]
  /\ inputHeap.size = 3
  /\ \E i \in DOMAIN heapInputs : inputHeap.pos[i] > 1
  /\ getHead(inputHeap)[1] = MaxPayload

\* C34: while the records of group g go through processState, no writer and
\* no open file of g or of a group before it changes, and no expansion ends
\* the run with an error because its child belongs to such a group
C34_ForwardOnlyEmission ==
  [][(pc = "process" /\ todo # << >> /\ todo' = Tail(todo) /\ restarts' = restarts) =>
       /\ \A g \in 0 .. currentFrameGroup : open'[g] = open[g] /\ queue'[g] = queue[g]
       /\ pc' = "process"]_vars

\* C35: open-g and closed-g never exist together, and once closed-g exists
\* no open-g, merged-g or closing-g is created for that g
C35_GroupsMoveForward ==
  /\ [](\A g \in Groups(build) : ~(open[g] # NoFile /\ closed[g] # NoFile))
  /\ [][\A g \in Groups(build) :
          closed[g] # NoFile =>
            /\ open[g] = NoFile => open'[g] = NoFile
            /\ merged[g] = NoFile => merged'[g] = NoFile
            /\ closing[g] = NoFile => closing'[g] = NoFile]_vars

\* C36: traceExit comes to an end: every pass of its loop takes the group
\* index down by one, every step of it brings it closer to its return, the
\* index never goes below -1 and the trace is never stuck; with the index
\* below 0 the run ends with the error "Lost parent node!", solution.txt is
\* not written then and solution.bin stays
C36_TraceExitTerminates ==
  /\ [][(pc \in TracePcs /\ restarts' = restarts /\ stopFile' = stopFile) =>
          /\ pc = "trace" /\ pc' \in { "trace", "tracescan" } =>
               exitSearchFrameGroup' = exitSearchFrameGroup - 1
          /\ pc # "trace" => exitSearchFrameGroup' = exitSearchFrameGroup
          /\ LexLess(Rank', Rank)]_vars
  /\ [](pc \in TracePcs =>
          /\ exitSearchFrameGroup >= -1
          /\ ENABLED (TraceSave \/ TraceScan \/ TraceWrite \/ TraceDelete))
  /\ [][(pc = "trace" /\ exitSearchFrameGroup < 0 /\ pc' # pc /\ restarts' = restarts) =>
          /\ pc' = "done" /\ exitCode' = EXIT_ERROR
          /\ solutionTxt' = solutionTxt /\ solution' = solution /\ solution.exists]_vars
  /\ [][(pc \in TracePcs /\ pc' = "tracewrite") => exitSearchFrameGroup >= 0]_vars

\* a trace that lost the parent: the run has ended with the error, solution.bin
\* is there and solution.txt is not
C36_Witness ==
  /\ pc = "done" /\ exitCode = EXIT_ERROR
  /\ exitSearchFrameGroup = -1
  /\ solution.exists /\ ~solutionTxt.exists

\* the frame delay of a recorded step: that of the move of the recorded
\* parent that carries the recorded step to the recorded child
StepDelay(p) ==
  LET mv == Problems[build.prob].moves[p.parent]
      i == CHOOSE j \in DOMAIN mv : mv[j][1] = p.step /\ mv[j][2] = p.state
  IN  mv[i][3]

RECURSIVE SumDelays(_)
SumDelays(ps) ==
  IF ps = << >> THEN 0 ELSE StepDelay(Head(ps)) + SumDelays(Tail(ps))

\* C37: traceExit goes on to writeSolution exactly when the parent it has just
\* recorded has frame 0; the state handed to writeSolution is an initial state
\* at frame 0, and the delays of the recorded steps add up to exitFrame
C37_TraceEndsAtFrameZero ==
  /\ [][(pc = "tracescan" /\ steps' # steps /\ restarts' = restarts) =>
          (pc' = "tracewrite" <=> exitSearchStateFrame' = 0)]_vars
  /\ [](pc = "tracewrite" =>
          /\ exitSearchStateFrame = 0
          /\ exitSearchState \in Range(Problems[build.prob].initialStates)
          /\ Len(steps) = Len(path)
          /\ SumDelays(path) = exitFrame)

\* C37 happens: with more than one frame per group, a trace of steps of
\* different delays has reached writeSolution
C37_Witness ==
  /\ pc = "tracewrite" /\ build.K > 1
  /\ \E i, j \in DOMAIN path : StepDelay(path[i]) # StepDelay(path[j])

\* C38: for an open file that filter-open rewrites in place, readpos >=
\* writepos holds after every read and every write of the buffered stream;
\* every record the stream hands out is the record the file held at that
\* place when it was opened, and all of them are handed out (none was
\* overwritten before it was read); after truncate and the deletion of the
\* stream the file holds exactly the records that were written to it
C38_RewriteInPlace ==
  /\ rw.archive => rw.readpos >= rw.writepos
  /\ (rwCtl.pc = "filter" /\ rwCtl.head # NULL) => rwCtl.head = rwCtl.nodes[rwCtl.read]
  /\ (rwCtl.pc = "filter" /\ rwCtl.head = NULL) => rwCtl.read = Len(rwCtl.nodes)
  /\ rwCtl.pc = "closed" =>
       /\ Len(rw.file) = NODE_SIZE * Len(rwCtl.written)
       /\ Nodes(rw.file) = rwCtl.written

\* what was written through the writer of open-g so far: the file and the
\* buffer of the writer
Written(g) ==
  (IF open[g] = NoFile THEN << >> ELSE open[g]) \o
  (IF queue[g] = NoQueue THEN << >> ELSE queue[g])

\* the phase of the current group is through and its files are still there
PhaseEnd == pc = "process" /\ todo = << >> /\ work # << >>

\* C33: a call of writeOpenState that is not suppressed appends exactly one
\* record, << state, frame mod K >>, to the writer of group frame / K; with
\* workers calling it concurrently at most one writer is created per group,
\* what was written to a group is what the calls appended, in the order of
\* the appends (nothing lost, duplicated or overwritten), and at the end of
\* a phase every child within MAX_FRAMES is in the open file of a group at
\* or before its frame
C33_WriteOpenState ==
  /\ [](\A g \in Groups(build) : made[g] <= 1)
  /\ [][pc = "workers" =>
         \A g \in Groups(build) :
           Written(g)' # Written(g) =>
             \E i \in Workers :
               /\ At(i, "queue_put")
               /\ local[i].frame \div K = g
               /\ Written(g)' = Append(Written(g),
                                       << local[i].cs, local[i].frame % K >>)]_vars
  /\ [](\A g \in Groups(build) :
          g > currentFrameGroup =>
            Written(g) = [k \in DOMAIN appended[g] |->
                            << appended[g][k].cs, appended[g][k].frame % K >>])
  /\ [](PhaseEnd =>
          \A id \in expanded :
            work[id].group = currentFrameGroup =>
              LET kids == expandChildren(build,
                            GET_FRAME(build, work[id].group, work[id].rec),
                            decompress(work[id].rec[1]))
              IN  \A k \in DOMAIN kids :
                    kids[k].frame \div K < MAX_FRAME_GROUPS(build) =>
                      \E g \in Groups(build) : \E n \in DOMAIN Written(g) :
                        /\ Written(g)[n][1] = compress(kids[k].state)
                        /\ GET_FRAME(build, g, Written(g)[n]) <= kids[k].frame)

\* two workers appended to open-2, one of them from inside the cache lock
\* (state 4 was added at frame 5 first and at frame 4 afterwards)
C33_Witness ==
  /\ PhaseEnd /\ currentFrameGroup = 1
  /\ made[2] = 1
  /\ \E j, k \in DOMAIN appended[2] :
       /\ j < k
       /\ appended[2][j].worker # appended[2][k].worker
       /\ appended[2][j].cs = appended[2][k].cs
       /\ appended[2][j].frame > appended[2][k].frame

\* the records handed to the workers so far that are finish states, and the
\* frame of a record
FinishRecords == { id \in DOMAIN work : isFinish(build, decompress(work[id].rec[1])) }
FrameOf(id) == GET_FRAME(build, work[id].group, work[id].rec)

\* C39: when no worker phase is running, exitFound is TRUE exactly if one of
\* the records the workers processed was a finish state; then exitState and
\* exitFrame are the state and the frame of one and the same processed finish
\* record, and no processed finish record has a smaller frame; the children
\* of a finish record are never generated
C39_FinishCheck ==
  /\ pc # "workers" =>
       /\ exitFound <=> FinishRecords # { }
       /\ exitFound =>
            \E id \in FinishRecords :
              /\ exitState = decompress(work[id].rec[1])
              /\ exitFrame = FrameOf(id)
              /\ \A other \in FinishRecords : FrameOf(other) >= exitFrame
  /\ expanded \cap FinishRecords = { }

\* two finish records of different frames went to different workers, and the
\* one with the smaller frame is the exit
C39_Witness ==
  /\ pc = "trace" /\ exitFound
  /\ \E a, c \in FinishRecords : \E i, j \in Workers :
       /\ i # j
       /\ BagIn(<< i, a >>, handled) /\ BagIn(<< j, c >>, handled)
       /\ FrameOf(a) < FrameOf(c)
       /\ exitFrame = FrameOf(a) /\ exitState = decompress(work[a].rec[1])

Threads == DOMAIN thread

\* the locks thread i holds, each as << kind, index >>
LockSet(i) ==
  { << "cache", p >> : p \in { q \in DOMAIN cacheMutex : cacheMutex[q] = i } } \cup
  { << "queue", g >> : g \in { h \in DOMAIN queueMutex : queueMutex[h] = i } } \cup
  (IF finishMutex = i THEN { << "finish", 0 >> } ELSE { }) \cup
  (IF tempMutex = i THEN { << "temp", 0 >> } ELSE { }) \cup
  (IF processQueueMutex = i THEN { << "ring", 0 >> } ELSE { })

Kinds(locks) == { l[1] : l \in locks }

\* worker i is inside the locked block of addState, the nested call of
\* writeOpenState included
InLockedBlock(i) ==
  /\ thread[i] = "handler"
  /\ \/ local[i].at \in { "cache_look", "cache_move", "cache_store" }
     \/ /\ local[i].at \in { "open", "queue_lock", "queue_test", "temp_lock",
                               "temp_index", "queue_new", "queue_pos", "queue_put" }
        /\ local[i].ret = "cache_move"

\* the thread that holds the mutex thread i is about to lock, Nobody if the
\* mutex is free or i is not about to lock one
WaitsFor(i) ==
  IF Locked(i) # "none" THEN processQueueMutex
  ELSE IF i = 0 \/ thread[i] # "handler" THEN Nobody
  ELSE CASE local[i].at = "finish_lock" -> finishMutex
         [] local[i].at = "cache_lock" -> cacheMutex[local[i].hash % PARTITIONS(build)]
         [] local[i].at = "queue_lock" -> queueMutex[local[i].frame \div K]
         [] local[i].at = "temp_lock" -> tempMutex
         [] OTHER -> Nobody

\* some threads wait for the mutexes of one another
CyclicWait ==
  \E C \in SUBSET Threads :
    /\ C # { }
    /\ \A i \in C : WaitsFor(i) \in C

\* thread i of a running phase can take a step: it holds the ring mutex, or
\* the mutex it is about to lock is free, or it is at a statement that takes
\* no lock; a thread that waits on a condition cannot
Runnable(i) ==
  IF Locked(i) # "none" THEN processQueueMutex = Nobody
  ELSE IF thread[i] \in { "queueState", "dequeueState", "exit", "flushProcessingQueue",
                          "flush_wait" }
  THEN TRUE
  ELSE IF thread[i] = "handler" THEN WaitsFor(i) = Nobody
  ELSE i = 0 /\ thread[i] = "idle"

\* the ring mutex and the finish mutex are never held while a lock is taken,
\* two threads in the locked block of addState for the same bucket do not
\* exist, a thread in that block holds the mutex of the partition of its
\* bucket, no threads wait for one another and a running phase can always
\* take a step
LockStructure ==
  /\ [][\A i \in Threads :
          LockSet(i)' \ LockSet(i) # { } =>
            Kinds(LockSet(i)) \cap { "ring", "finish" } = { }]_vars
  /\ [](\A i \in Workers :
          InLockedBlock(i) =>
            /\ cacheMutex[local[i].hash % PARTITIONS(build)] = i
            /\ \A j \in Workers \ { i } :
                 InLockedBlock(j) => local[j].hash # local[i].hash)
  /\ [](~CyclicWait)
  /\ [](pc = "workers" => \E i \in Threads : Runnable(i))

\* the statement as the specification has it: a lock is taken with another
\* one held only when it is a queue mutex and what is held is a cache mutex
C40_OnlyCacheThenQueue ==
  /\ [][\A i \in Threads :
          \A l \in LockSet(i)' \ LockSet(i) :
            LockSet(i) # { } =>
              l[1] = "queue" /\ Kinds(LockSet(i)) = { "cache" }]_vars
  /\ LockStructure

\* C40: locks are nested in the order cache-partition mutex, per-group queue
\* mutex, mutex of getTempString (taken for the file name when the writer of
\* a group is created) and in no other way; the ring mutex and the finish
\* mutex are never held while a lock is taken; a thread inside the locked
\* block of addState holds the mutex of its bucket's partition, so no bucket
\* is touched by two threads at once; no wait is cyclic and a running phase
\* is never stuck
C40_LockOrder ==
  /\ [][\A i \in Threads :
          \A l \in LockSet(i)' \ LockSet(i) :
            LockSet(i) # { } =>
              \/ l[1] = "queue" /\ Kinds(LockSet(i)) = { "cache" }
              \/ /\ l[1] = "temp"
                 /\ Kinds(LockSet(i)) \in { { "queue" }, { "cache", "queue" } }]_vars
  /\ [](\A i \in Threads : Cardinality(LockSet(i)) <= 3)
  /\ LockStructure

\* a worker holds a cache mutex, a queue mutex and the mutex of
\* getTempString at once, and the other worker waits for the queue mutex
C40_Witness ==
  \E i, j \in Workers :
    /\ Kinds(LockSet(i)) = { "cache", "queue", "temp" }
    /\ WaitsFor(j) = i
    /\ local[j].at = "queue_lock"
====
